---- MODULE Spec2Model ----
(***************************************************************************)
(* A model of the document-conversion engine of rivermeet-tui: the         *)
(* Markdown parser (block dispatch and inline cascade), the Markdown       *)
(* serializer, the read-view projector and the line flattener.             *)
(*                                                                         *)
(* A JavaScript string is a sequence of one-character strings, so that     *)
(* every regular expression of the source is computed position by          *)
(* position.  A JavaScript object is a record that has exactly the keys    *)
(* the object has; an absent optional key is an absent record field.       *)
(* An exception raised while a string is being built is a poison           *)
(* character (RangeError, TypeError) that every string operation carries   *)
(* along: a conversion threw exactly when its result holds one.            *)
(***************************************************************************)
EXTENDS Integers, Sequences, FiniteSets, TLC

VARIABLES
    pc,             \* position of the conversion pass being modelled
    adf,            \* the document tree (source of a serialization, result of a parse)
    markdown,       \* the Markdown text
    frames,         \* parse contexts: the top-level one and one per open blockquote
    uuid,           \* state of the ambient identifier source (crypto.randomUUID)
    stuck,          \* dispatcher calls so far that did not advance the cursor
    parsed,         \* the document a finished parse returned
    output,         \* the Markdown a serialization returned
    readViewRoot,   \* the display tree produced by projection
    readViewLines,  \* the display-line sequence built by flattening
    work,           \* pending flattenReadViewNode calls, innermost first
    view,           \* which flattener is running ("ConfluenceTUI" or "PageView")
    parser,         \* which parser is running ("markdown-components" or "markdown-parser")
    currentPage,    \* PageView.currentPage
    cursorLine,     \* PageView.cursorLine
    cursorCol,      \* PageView.cursorCol
    visualMode,     \* PageView.visualMode
    selectionAnchor,\* PageView.selectionAnchor
    search,         \* PageView.search
    pendingChanges, \* PageView.pendingChanges
    remote,         \* the pages of the remote store: version and body of each
    cache,          \* PageCache: the cached page and the Markdown file of each page
    tasks,          \* the asynchronous calls in progress, each at its await
    requests,       \* the update requests on their way to the remote store
    status,         \* the kind of message the status bar shows
    visible,        \* which view the application shows ("tree" or "page"; "landing"
                    \* or "search" for the landing view and its focused search input;
                    \* "none" once cleanup has ended the application)
    requested,      \* the node of the latest openPage call
    searchInput     \* the fields of a SearchInput

vars == <<pc, adf, markdown, frames, uuid, stuck, parsed, output,
          readViewRoot, readViewLines, work, view, parser,
          currentPage, cursorLine, cursorCol, visualMode, selectionAnchor, search,
          pendingChanges, remote, cache, tasks, requests, status, visible, requested,
          searchInput>>

\* the fields of the page view and of its collaborators
pageViewVars == <<currentPage, cursorLine, cursorCol, visualMode, selectionAnchor, search,
                  pendingChanges, remote, cache, tasks, requests, status, visible, requested,
                  searchInput>>

\* a conversion pass touches none of them
PageViewIdle == UNCHANGED pageViewVars

\* SearchInput as constructed: the field initializers of the class
SearchInputConstructed ==
    [inputBuffer |-> <<>>, results |-> <<>>, selectedIndex |-> 0, isLoading |-> FALSE,
     searchTimeout |-> "null", _isFocused |-> FALSE]

\* the page view as constructed: no page, the field initializers of the class
PageViewConstructed ==
    /\ searchInput = SearchInputConstructed
    /\ currentPage = [type |-> "none"]
    /\ cursorLine = 0
    /\ cursorCol = 0
    /\ visualMode = "none"
    /\ selectionAnchor = [line |-> 0, col |-> 0]
    /\ search = [pattern |-> <<>>, matches |-> <<>>, currentMatchIndex |-> -1,
                 isSearching |-> FALSE, inputBuffer |-> <<>>]
    /\ pendingChanges = [hasPendingChanges |-> FALSE, originalMarkdown |-> <<>>,
                         editedMarkdown |-> <<>>, confirmingPublish |-> FALSE]
    /\ remote = <<>>
    /\ cache = <<>>
    /\ tasks = <<>>
    /\ requests = <<>>
    /\ status = "ready"
    /\ visible = "tree"
    /\ requested = [type |-> "none"]

----------------------------------------------------------------------------
(* Bounds of the model *)

MaxLines == 3
MaxStuck == 2
MaxMarks == 2
MaxBodyRows == 2
MaxCols == 2
MaxBlocks == 2
MaxDepth == 3
MaxNodes == 4

----------------------------------------------------------------------------
(* Strings *)

NL == "\n"
\* the backtick character (the lexer of TLA+ does not take it inside a string)
Backtick == "BACKTICK"
RangeError == "RangeError: Invalid count value"
TypeError == "TypeError: toUpperCase is not a function"

\* \s of a JavaScript regular expression, and the characters trim() strips
IsSpace(c) == c \in {" ", NL, "\t"}

IsDigit(c) == c \in {"0", "1", "2", "3", "4", "5", "6", "7", "8", "9"}

Threw(s) == \E i \in 1..Len(s) : s[i] \in {RangeError, TypeError}

\* s.slice(n) with n >= 0: the characters after the first n
Slice(s, n) == SubSeq(s, n + 1, Len(s))

StartsWith(s, p) == Len(s) >= Len(p) /\ SubSeq(s, 1, Len(p)) = p

\* p occurs in s at position i (1-based)
At(s, i, p) == i >= 1 /\ i + Len(p) - 1 <= Len(s) /\ SubSeq(s, i, i + Len(p) - 1) = p

RECURSIVE TrimStart(_)
TrimStart(s) ==
    IF s # <<>> /\ IsSpace(s[1]) THEN TrimStart(Tail(s)) ELSE s

RECURSIVE TrimEnd(_)
TrimEnd(s) ==
    IF s # <<>> /\ IsSpace(s[Len(s)]) THEN TrimEnd(SubSeq(s, 1, Len(s) - 1)) ELSE s

Trim(s) == TrimEnd(TrimStart(s))

\* s.repeat(n): raises RangeError for a negative count
RECURSIVE Repeat(_, _)
Repeat(s, n) ==
    IF n < 0 THEN <<RangeError>>
    ELSE IF n = 0 THEN <<>>
    ELSE s \o Repeat(s, n - 1)

\* parts.join(sep)
RECURSIVE Join(_, _)
Join(parts, sep) ==
    IF parts = <<>> THEN <<>>
    ELSE IF Len(parts) = 1 THEN parts[1]
    ELSE parts[1] \o sep \o Join(Tail(parts), sep)

\* parts.join("")
Concat(parts) == Join(parts, <<>>)

\* least index >= from at which character c stands in s, 0 when there is none
RECURSIVE IndexOf(_, _, _)
IndexOf(s, c, from) ==
    IF from > Len(s) THEN 0
    ELSE IF s[from] = c THEN from
    ELSE IndexOf(s, c, from + 1)

\* s.split(c) for a one-character separator: "".split(c) is [""]
RECURSIVE Split(_, _)
Split(s, c) ==
    LET i == IndexOf(s, c, 1)
    IN IF i = 0 THEN <<s>>
       ELSE <<SubSeq(s, 1, i - 1)>> \o Split(Slice(s, i), c)

\* length of the longest prefix of s, taken from position from, made of characters in P
RECURSIVE RunLen(_, _, _)
RunLen(s, from, P) ==
    IF from <= Len(s) /\ s[from] \in P THEN 1 + RunLen(s, from + 1, P) ELSE 0

SpaceChars == {" ", NL, "\t"}
DigitChars == {"0", "1", "2", "3", "4", "5", "6", "7", "8", "9"}

----------------------------------------------------------------------------
(* Inline parsing (matchInlinePattern, parseInlineContent) *)

NoMatch == [matched |-> FALSE]

Least(I) == CHOOSE i \in I : \A k \in I : i <= k

\* text.match(/^(.*?)D(.+?)D(.*)$/s) for a delimiter D: the lazy first group stops
\* at the least i where D stands and stands again at least one character later;
\* the lazy second group stops at the least such second position
DelimitedMatch(text, d) ==
    LET Close(i) == {j \in (i + Len(d) + 1)..Len(text) : At(text, j, d)}
        Open == {i \in 1..Len(text) : At(text, i, d) /\ Close(i) # {}}
    IN IF Open = {} THEN NoMatch
       ELSE LET i == Least(Open)
                j == Least(Close(i))
            IN [matched |-> TRUE,
                before |-> SubSeq(text, 1, i - 1),
                inner |-> SubSeq(text, i + Len(d), j - 1),
                after |-> Slice(text, j + Len(d) - 1)]

\* text.match(/^(.*?)(?<!c)c(?!c)(.+?)(?<!c)c(?!c)(.*)$/s): a single c on each side
LoneMatch(text, c) ==
    LET Lone(i) == /\ text[i] = c
                   /\ (i = 1 \/ text[i - 1] # c)
                   /\ (i = Len(text) \/ text[i + 1] # c)
        Close(i) == {j \in (i + 2)..Len(text) : Lone(j)}
        Open == {i \in 1..Len(text) : Lone(i) /\ Close(i) # {}}
    IN IF Open = {} THEN NoMatch
       ELSE LET i == Least(Open)
                j == Least(Close(i))
            IN [matched |-> TRUE,
                before |-> SubSeq(text, 1, i - 1),
                inner |-> SubSeq(text, i + 1, j - 1),
                after |-> Slice(text, j)]

\* text.match of the inline-code pattern, (.*?) backtick ([^backtick]+) backtick (.*):
\* the closing backtick is the next backtick
CodeMatch(text) ==
    LET Close(i) == IndexOf(text, Backtick, i + 1)
        Open == {i \in 1..Len(text) : text[i] = Backtick /\ Close(i) >= i + 2}
    IN IF Open = {} THEN NoMatch
       ELSE LET i == Least(Open)
                j == Close(i)
            IN [matched |-> TRUE,
                before |-> SubSeq(text, 1, i - 1),
                inner |-> SubSeq(text, i + 1, j - 1),
                after |-> Slice(text, j)]

\* text.match(/^(.*?)\[([^\]]+)\]\(([^)]+)\)(.*)$/s)
LinkMatch(text) ==
    LET Bracket(i) == IndexOf(text, "]", i + 1)
        Paren(i) == IndexOf(text, ")", Bracket(i) + 2)
        Open == {i \in 1..Len(text) :
                    /\ text[i] = "["
                    /\ Bracket(i) >= i + 2
                    /\ At(text, Bracket(i) + 1, <<"(">>)
                    /\ Paren(i) >= Bracket(i) + 3}
    IN IF Open = {} THEN NoMatch
       ELSE LET i == Least(Open)
                k == Bracket(i)
                m == Paren(i)
            IN [matched |-> TRUE,
                before |-> SubSeq(text, 1, i - 1),
                inner |-> SubSeq(text, i + 1, k - 1),
                href |-> SubSeq(text, k + 2, m - 1),
                after |-> Slice(text, m)]

\* text.match(/^(.*?)  \n(.*)$/s)
HardBreakMatch(text) ==
    LET Open == {i \in 1..Len(text) : At(text, i, <<" ", " ", NL>>)}
    IN IF Open = {} THEN NoMatch
       ELSE LET i == Least(Open)
            IN [matched |-> TRUE,
                before |-> SubSeq(text, 1, i - 1),
                after |-> Slice(text, i + 2)]

\* a || b of two match results
OrElse(a, b) == IF a.matched THEN a ELSE b

MarkedText(m, marks) ==
    IF m.matched
    THEN [matched |-> TRUE,
          before |-> m.before,
          node |-> [type |-> "text", text |-> m.inner, marks |-> marks],
          after |-> m.after]
    ELSE NoMatch

LinkText(m) ==
    IF m.matched
    THEN MarkedText(m, <<[type |-> "link", attrs |-> [href |-> m.href]]>>)
    ELSE NoMatch

HardBreak(m) ==
    IF m.matched
    THEN [matched |-> TRUE, before |-> m.before,
          node |-> [type |-> "hardBreak"], after |-> m.after]
    ELSE NoMatch

\* The cascade with the italic matcher tried before the bold ones
matchInlinePattern_italicFirst(text) ==
    OrElse(MarkedText(OrElse(LoneMatch(text, "*"), LoneMatch(text, "_")),
                      <<[type |-> "em"]>>),
           MarkedText(OrElse(DelimitedMatch(text, <<"*", "*">>),
                             DelimitedMatch(text, <<"_", "_">>)),
                      <<[type |-> "strong"]>>))

\* what each matcher of the cascade finds in a text, in the order of the source
Matchers(text) ==
    <<MarkedText(CodeMatch(text), <<[type |-> "code"]>>),
      MarkedText(OrElse(DelimitedMatch(text, <<"*", "*", "*">>),
                        DelimitedMatch(text, <<"_", "_", "_">>)),
                 <<[type |-> "strong"], [type |-> "em"]>>),
      MarkedText(OrElse(DelimitedMatch(text, <<"*", "*">>),
                        DelimitedMatch(text, <<"_", "_">>)),
                 <<[type |-> "strong"]>>),
      MarkedText(OrElse(LoneMatch(text, "*"), LoneMatch(text, "_")),
                 <<[type |-> "em"]>>),
      MarkedText(DelimitedMatch(text, <<"~", "~">>), <<[type |-> "strike"]>>),
      LinkText(LinkMatch(text)),
      HardBreak(HardBreakMatch(text))>>

\* a cascade in which the match that begins furthest to the left wins
matchInlinePattern_leftmost(text) ==
    LET Pick(found) ==
            LET firing == {k \in DOMAIN found : found[k].matched}
            IN IF firing = {} THEN NoMatch
               ELSE found[CHOOSE k \in firing :
                             \A j \in firing :
                                 \/ Len(found[k].before) < Len(found[j].before)
                                 \/ Len(found[k].before) = Len(found[j].before) /\ k <= j]
    IN Pick(Matchers(text))

\* The cascade, in the order of the source: the first matcher that matches
\* anywhere in the text wins (code, bold+italic, bold, italic, strikethrough,
\* link, hard break)
matchInlinePattern(text) ==
    OrElse(MarkedText(CodeMatch(text), <<[type |-> "code"]>>),
    OrElse(MarkedText(OrElse(DelimitedMatch(text, <<"*", "*", "*">>),
                             DelimitedMatch(text, <<"_", "_", "_">>)),
                      <<[type |-> "strong"], [type |-> "em"]>>),
    OrElse(MarkedText(OrElse(DelimitedMatch(text, <<"*", "*">>),
                             DelimitedMatch(text, <<"_", "_">>)),
                      <<[type |-> "strong"]>>),
    OrElse(MarkedText(OrElse(LoneMatch(text, "*"), LoneMatch(text, "_")),
                      <<[type |-> "em"]>>),
    OrElse(MarkedText(DelimitedMatch(text, <<"~", "~">>), <<[type |-> "strike"]>>),
    OrElse(LinkText(LinkMatch(text)),
           HardBreak(HardBreakMatch(text))))))))

PlainText(t) == [type |-> "text", text |-> t]

\* the while loop of parseInlineContent
RECURSIVE InlineLoop(_)
InlineLoop(remaining) ==
    IF Len(remaining) = 0 THEN <<>>
    ELSE LET Push(result) ==
                 IF result.matched
                 THEN (IF result.before # <<>> THEN <<PlainText(result.before)>> ELSE <<>>)
                      \o <<result.node>> \o InlineLoop(result.after)
                 ELSE <<PlainText(remaining)>>
         IN Push(matchInlinePattern(remaining))

parseInlineContent(text) ==
    IF Trim(text) = <<>> THEN <<>> ELSE InlineLoop(text)

----------------------------------------------------------------------------
(* Block parsing: one canParse / parseFromMarkdown pair per block component. *)
(* A context is [lines, currentLine]; currentLine is the 0-based cursor.     *)
(* A parse result is [node, consumed, currentLine, uuid]: the node (absent   *)
(* when null), the cursor and the identifier source as the call leaves them. *)

\* context.lines[context.currentLine] || ""
CurrentLine(context) ==
    IF context.currentLine < Len(context.lines)
    THEN context.lines[context.currentLine + 1]
    ELSE <<>>

Map(s, F(_)) == [i \in 1..Len(s) |-> F(s[i])]

IsBlank(line) == Trim(line) = <<>>

\* /^#{1,6}\s+/
IsHeadingLine(line) ==
    LET k == RunLen(line, 1, {"#"})
    IN k >= 1 /\ k <= 6 /\ RunLen(line, k + 1, SpaceChars) >= 1

\* /^-{3,}$/ or /^\*{3,}$/ or /^_{3,}$/
IsRuleLine(line) ==
    \E c \in {"-", "*", "_"} : Len(line) >= 3 /\ RunLen(line, 1, {c}) = Len(line)

IsQuoteLine(line) == StartsWith(line, <<">", " ">>) \/ line = <<">">>

\* /^[-*]\s+/
IsBulletLine(line) ==
    Len(line) >= 1 /\ line[1] \in {"-", "*"} /\ RunLen(line, 2, SpaceChars) >= 1

\* /^[-*]\s+\[[ xX]\]/
HasCheckbox(line) ==
    LET b == 2 + RunLen(line, 2, SpaceChars)
    IN /\ IsBulletLine(line)
       /\ At(line, b, <<"[">>)
       /\ b + 1 <= Len(line) /\ line[b + 1] \in {" ", "x", "X"}
       /\ At(line, b + 2, <<"]">>)

\* /^[-*]\s+\[[ xX]\]\s+/
IsTaskLine(line) ==
    HasCheckbox(line) /\ RunLen(line, 5 + RunLen(line, 2, SpaceChars), SpaceChars) >= 1

\* /^\d+\.\s+/
IsOrderedLine(line) ==
    LET d == RunLen(line, 1, DigitChars)
    IN d >= 1 /\ At(line, d + 1, <<".">>) /\ RunLen(line, d + 2, SpaceChars) >= 1

\* /^\|.*\|$/
IsTableLine(line) == Len(line) >= 2 /\ line[1] = "|" /\ line[Len(line)] = "|"

\* /^\|[\s-:|]+\|$/
IsSeparatorLine(line) ==
    /\ Len(line) >= 3
    /\ IsTableLine(line)
    /\ \A i \in 2..(Len(line) - 1) : line[i] \in SpaceChars \cup {"-", ":", "|"}

IsFenceLine(line) == StartsWith(line, <<Backtick, Backtick, Backtick>>)

\* Which lines the loop of a component takes
Accepts(component, line) ==
    CASE component = "paragraph" ->
            ~ \/ IsBlank(line)
              \/ StartsWith(line, <<"#">>)
              \/ IsFenceLine(line)
              \/ IsQuoteLine(line)
              \/ IsBulletLine(line)
              \/ IsOrderedLine(line)
              \/ IsRuleLine(line)
              \/ IsTableLine(line)
      [] component = "bulletList" -> IsBulletLine(line) /\ ~HasCheckbox(line)
      [] component = "orderedList" -> IsOrderedLine(line)
      [] component = "taskList" -> IsTaskLine(line)
      [] component = "table" -> IsTableLine(line)
      [] component = "blockquote" -> IsQuoteLine(line)
      [] component = "codeBlock" -> ~IsFenceLine(line)
      \* the loops of the standalone parser that differ from the components'
      [] component = "parseBulletList" -> IsBulletLine(line)
      [] component = "parseParagraph" ->
            ~ \/ IsBlank(line)
              \/ StartsWith(line, <<"#">>)
              \/ IsFenceLine(line)
              \/ StartsWith(line, <<">", " ">>)
              \/ IsBulletLine(line)
              \/ IsOrderedLine(line)
              \/ (Len(line) >= 3 /\ RunLen(line, 1, {"-"}) = Len(line))
              \/ IsTableLine(line)

\* The cursor at which "while (currentLine < lines.length) { if (!accepted) break;
\* currentLine++ }" stops, started at cursor i
RECURSIVE RunEnd(_, _, _)
RunEnd(component, lines, i) ==
    IF i < Len(lines) /\ Accepts(component, lines[i + 1])
    THEN RunEnd(component, lines, i + 1)
    ELSE i

Paragraph(inline) == [type |-> "paragraph", content |-> inline]

Result(node, cursor, ids) ==
    [node |-> node, consumed |-> TRUE, currentLine |-> cursor, uuid |-> ids]

ParagraphComponent_canParse(context) == Trim(CurrentLine(context)) # <<>>

ParagraphComponent_parseFromMarkdown(context, ids) ==
    LET end == RunEnd("paragraph", context.lines, context.currentLine)
        text == Join(SubSeq(context.lines, context.currentLine + 1, end), <<NL>>)
    IN Result(Paragraph(parseInlineContent(text)), end, ids)

HeadingComponent_canParse(context) == IsHeadingLine(CurrentLine(context))

HeadingComponent_parseFromMarkdown(context, ids) ==
    LET line == CurrentLine(context)
        level == RunLen(line, 1, {"#"})
        text == Slice(line, level + RunLen(line, level + 1, SpaceChars))
    IN IF ~IsHeadingLine(line)
       THEN [consumed |-> FALSE, currentLine |-> context.currentLine, uuid |-> ids]
       ELSE Result([type |-> "heading", attrs |-> [level |-> level],
                    content |-> parseInlineContent(text)],
                   context.currentLine + 1, ids)

ListItem(itemContent) ==
    [type |-> "listItem", content |-> <<Paragraph(parseInlineContent(itemContent))>>]

\* group 2 of /^([-*])\s+(.*)$/
BulletText(line) == Slice(line, 1 + RunLen(line, 2, SpaceChars))

BulletListComponent_canParse(context) ==
    IsBulletLine(CurrentLine(context)) /\ ~HasCheckbox(CurrentLine(context))

BulletListComponent_parseFromMarkdown(context, ids) ==
    LET end == RunEnd("bulletList", context.lines, context.currentLine)
        taken == SubSeq(context.lines, context.currentLine + 1, end)
        Item(line) == ListItem(BulletText(line))
    IN Result([type |-> "bulletList", content |-> Map(taken, Item)], end, ids)

\* group 1 of /^\d+\.\s+(.*)$/
OrderedText(line) ==
    LET d == RunLen(line, 1, DigitChars)
    IN Slice(line, d + 1 + RunLen(line, d + 2, SpaceChars))

OrderedListComponent_canParse(context) == IsOrderedLine(CurrentLine(context))

OrderedListComponent_parseFromMarkdown(context, ids) ==
    LET end == RunEnd("orderedList", context.lines, context.currentLine)
        taken == SubSeq(context.lines, context.currentLine + 1, end)
        Item(line) == ListItem(OrderedText(line))
    IN Result([type |-> "orderedList", content |-> Map(taken, Item)], end, ids)

CodeBlockComponent_canParse(context) == IsFenceLine(CurrentLine(context))

\* the loop, were it to leave the closing fence to the dispatcher
CodeBlockComponent_parseFromMarkdown_fenceLeft(context, ids) ==
    LET language == Trim(Slice(CurrentLine(context), 3))
        first == context.currentLine + 1
        end == RunEnd("codeBlock", context.lines, first)
        text == <<PlainText(Join(SubSeq(context.lines, first + 1, end), <<NL>>))>>
    IN Result(IF language # <<>>
              THEN [type |-> "codeBlock", attrs |-> [language |-> language],
                    content |-> text]
              ELSE [type |-> "codeBlock", content |-> text],
              end, ids)

CodeBlockComponent_parseFromMarkdown(context, ids) ==
    LET language == Trim(Slice(CurrentLine(context), 3))
        first == context.currentLine + 1
        end == RunEnd("codeBlock", context.lines, first)
        codeLines == SubSeq(context.lines, first + 1, end)
        text == <<PlainText(Join(codeLines, <<NL>>))>>
        \* the closing fence is consumed when there is one
        cursor == IF end < Len(context.lines) THEN end + 1 ELSE end
    IN Result(IF language # <<>>
              THEN [type |-> "codeBlock", attrs |-> [language |-> language],
                    content |-> text]
              ELSE [type |-> "codeBlock", content |-> text],
              cursor, ids)

RuleComponent_canParse(context) == IsRuleLine(CurrentLine(context))

RuleComponent_parseFromMarkdown(context, ids) ==
    Result([type |-> "rule"], context.currentLine + 1, ids)

\* groups 1 and 2 of /^[-*]\s+\[([ xX])\]\s+(.*)$/
TaskBox(line) == line[3 + RunLen(line, 2, SpaceChars)]
TaskText(line) ==
    LET b == 4 + RunLen(line, 2, SpaceChars)
    IN Slice(line, b + RunLen(line, b + 1, SpaceChars))

TaskListComponent_canParse(context) == IsTaskLine(CurrentLine(context))

\* the loop, were the box compared with "x" as it stands
TaskListComponent_parseFromMarkdown_lowerOnly(context, ids) ==
    LET end == RunEnd("taskList", context.lines, context.currentLine)
        taken == SubSeq(context.lines, context.currentLine + 1, end)
        items == [k \in 1..Len(taken) |->
                    [type |-> "taskItem",
                     attrs |-> [state |-> IF TaskBox(taken[k]) = "x" THEN "DONE"
                                          ELSE "TODO",
                                localId |-> ids + k],
                     content |-> parseInlineContent(TaskText(taken[k]))]]
    IN Result([type |-> "taskList",
               attrs |-> [localId |-> ids + Len(taken) + 1],
               content |-> items],
              end, ids + Len(taken) + 1)

\* crypto.randomUUID() is drawn once per item, in order, and then once for the list
TaskListComponent_parseFromMarkdown(context, ids) ==
    LET end == RunEnd("taskList", context.lines, context.currentLine)
        taken == SubSeq(context.lines, context.currentLine + 1, end)
        checked(line) == TaskBox(line) \in {"x", "X"}
        items == [k \in 1..Len(taken) |->
                    [type |-> "taskItem",
                     attrs |-> [state |-> IF checked(taken[k]) THEN "DONE" ELSE "TODO",
                                localId |-> ids + k],
                     content |-> parseInlineContent(TaskText(taken[k]))]]
    IN Result([type |-> "taskList",
               attrs |-> [localId |-> ids + Len(taken) + 1],
               content |-> items],
              end, ids + Len(taken) + 1)

TableComponent_canParse(context) == IsTableLine(CurrentLine(context))

\* line.slice(1, -1).split("|").map((cell) => cell.trim())
TableCells(line) == Map(Split(SubSeq(line, 2, Len(line) - 1), "|"), Trim)

TableComponent_parseFromMarkdown(context, ids) ==
    LET end == RunEnd("table", context.lines, context.currentLine)
        taken == SubSeq(context.lines, context.currentLine + 1, end)
        NotSeparator(line) == ~IsSeparatorLine(line)
        data == SelectSeq(taken, NotSeparator)
        Cell(cellType, cellContent) ==
            [type |-> cellType, content |-> <<Paragraph(parseInlineContent(cellContent))>>]
        Row(k) ==
            LET cells == TableCells(data[k])
                cellType == IF k = 1 THEN "tableHeader" ELSE "tableCell"
            IN [type |-> "tableRow",
                content |-> [c \in 1..Len(cells) |-> Cell(cellType, cells[c])]]
    IN Result([type |-> "table",
               attrs |-> [isNumberColumnEnabled |-> FALSE, layout |-> "default"],
               content |-> [k \in 1..Len(data) |-> Row(k)]],
              end, ids)

BlockquoteComponent_canParse(context) == IsQuoteLine(CurrentLine(context))

\* the first loop, were it to take the line at the cursor only
QuotedContext_oneLine(context) ==
    LET line == CurrentLine(context)
    IN [end |-> context.currentLine + 1,
        context |-> [lines |-> <<IF StartsWith(line, <<">", " ">>) THEN Slice(line, 2)
                                 ELSE <<>>>>,
                     currentLine |-> 0]]

\* The first loop of BlockquoteComponent.parseFromMarkdown: the quoted lines,
\* stripped, and the context the quoted text is parsed in
QuotedContext(context) ==
    LET end == RunEnd("blockquote", context.lines, context.currentLine)
        taken == SubSeq(context.lines, context.currentLine + 1, end)
        Strip(line) == IF StartsWith(line, <<">", " ">>) THEN Slice(line, 2) ELSE <<>>
        quotedContent == Join(Map(taken, Strip), <<NL>>)
    IN [end |-> end,
        context |-> [lines |-> Split(quotedContent, NL), currentLine |-> 0]]

----------------------------------------------------------------------------
(* The component registry and the render context *)

\* createComponentRegistry: the type tags that have a component
Registered ==
    {"doc", "paragraph", "text", "heading", "bulletList", "orderedList", "listItem",
     "codeBlock", "blockquote", "rule", "hardBreak", "panel", "decisionList",
     "decisionItem", "taskList", "taskItem", "table", "tableRow", "tableCell",
     "tableHeader", "mediaSingle", "media", "expand", "status", "emoji", "mention",
     "date"}

createRenderContext == [indent |-> 0, listDepth |-> 0, inCodeBlock |-> FALSE]

\* { ...r, k: v }
With(r, k, v) == [x \in DOMAIN r \cup {k} |-> IF x = k THEN v ELSE r[x]]

Has(r, k) == k \in DOMAIN r

\* node.content, read by code that treats undefined like an empty array
Children(node) == IF Has(node, "content") THEN node.content ELSE <<>>

\* (node.attrs?.k as T) || default, for string attributes ("" is falsy)
StrAttr(node, k, default) ==
    IF Has(node, "attrs") /\ Has(node.attrs, k) /\ node.attrs[k] # <<>>
    THEN node.attrs[k]
    ELSE default

\* (node.attrs?.level as number) || 1 (0 is falsy)
Level(node) ==
    IF Has(node, "attrs") /\ Has(node.attrs, "level") /\ node.attrs.level # 0
    THEN node.attrs.level
    ELSE 1

\* Characters that stand for the non-ASCII symbols of the source
IconInfo == "U+2139"
IconNote == "U+1F4DD"
IconWarning == "U+26A0"
IconError == "U+274C"
IconCheck == "U+2713"
IconBullet == "U+2022"
IconCircle == "U+25CB"
IconBoxChecked == "U+2611"
IconBoxEmpty == "U+2610"
IconBar == "U+2502"
IconDash == "U+2500"
IconTriangle == "U+25B6"
IconClip == "U+1F4CE"

\* s.toUpperCase(), on the words the documents of the model use; a value that is
\* not a string (written NotAString) has no toUpperCase: TypeError
NotAString == <<"5">>
UpperWord(c) ==
    CASE c = "info" -> "INFO" [] c = "note" -> "NOTE" [] c = "warning" -> "WARNING"
      [] c = "error" -> "ERROR" [] c = "success" -> "SUCCESS"
      [] c = "neutral" -> "NEUTRAL" [] c = "green" -> "GREEN"
      [] c = "a" -> "A" [] c = "b" -> "B" [] c = "c" -> "C"
      [] OTHER -> c
ToUpperCase(s) == IF s = NotAString THEN <<TypeError>> ELSE Map(s, UpperWord)

\* JSON.stringify(node, null, 2) of a node that has the keys type, content, text
RECURSIVE Json(_, _)
Json(node, indent) ==
    LET pad == Repeat(<<" ">>, indent + 2)
        Item(child) == Repeat(<<" ">>, indent + 4) \o Json(child, indent + 4)
        fields ==
            <<pad \o <<"\"", "type", "\"", ":", " ", "\"">> \o <<node.type, "\"">> >>
            \o (IF Has(node, "content")
                THEN << pad \o <<"\"", "content", "\"", ":", " ">>
                        \o (IF node.content = <<>> THEN <<"[", "]">>
                            ELSE <<"[", NL>>
                                 \o Join(Map(node.content, Item), <<",", NL>>)
                                 \o <<NL>> \o pad \o <<"]">>) >>
                ELSE <<>>)
            \o (IF Has(node, "text")
                THEN << pad \o <<"\"", "text", "\"", ":", " ", "\"">> \o node.text \o <<"\"">> >>
                ELSE <<>>)
    IN <<"{", NL>> \o Join(fields, <<",", NL>>) \o <<NL>> \o Repeat(<<" ">>, indent) \o <<"}">>

renderUnknown(node) ==
    <<NL, Backtick, Backtick, Backtick, "json", " ", "[", "Unknown", " ", "Component", ":", " ">> \o <<node.type>> \o <<"]", NL>>
    \o Json(node, 0) \o <<NL, Backtick, Backtick, Backtick, NL>>

createUnknownReadViewNode(node) ==
    [content |-> <<"[", "Unknown", " ", "Component", ":", " ">> \o <<node.type>> \o <<"]", NL>> \o Json(node, 0),
     children |-> <<>>]

----------------------------------------------------------------------------
(* The Markdown serializer: toMarkdown of every component *)

\* `${n}` for a number n >= 0
RECURSIVE NumChars(_)
NumChars(n) ==
    LET digits == <<"0", "1", "2", "3", "4", "5", "6", "7", "8", "9">>
    IN IF n < 10 THEN <<digits[n + 1]>>
       ELSE NumChars(n \div 10) \o <<digits[(n % 10) + 1]>>

\* The switch with the underscore style for em
WrapMark_emUnderscore(mark, text) ==
    CASE mark.type = "strong" -> <<"*", "*">> \o text \o <<"*", "*">>
      [] mark.type = "em" -> <<"_">> \o text \o <<"_">>
      [] OTHER -> text

\* One pass of the switch of TextComponent.toMarkdown
WrapMark(mark, text) ==
    CASE mark.type = "strong" -> <<"*", "*">> \o text \o <<"*", "*">>
      [] mark.type = "em" -> <<"*">> \o text \o <<"*">>
      [] mark.type = "code" -> <<Backtick>> \o text \o <<Backtick>>
      [] mark.type = "strike" -> <<"~", "~">> \o text \o <<"~", "~">>
      [] mark.type = "underline" -> <<"<", "u", ">">> \o text \o <<"<", "/", "u", ">">>
      [] mark.type = "link" ->
            <<"[">> \o text \o <<"]", "(">>
            \o (IF Has(mark, "attrs") /\ Has(mark.attrs, "href")
                THEN mark.attrs.href ELSE <<>>)
            \o <<")">>
      [] OTHER -> text

\* the loop, were the first mark the outermost wrapper
RECURSIVE ApplyMarks_firstOutermost(_, _, _)
ApplyMarks_firstOutermost(marks, k, text) ==
    IF k > Len(marks) THEN text
    ELSE WrapMark(marks[k], ApplyMarks_firstOutermost(marks, k + 1, text))

\* for (const mark of node.marks): the marks from position k on, applied to text
RECURSIVE ApplyMarks(_, _, _)
ApplyMarks(marks, k, text) ==
    IF k > Len(marks) THEN text
    ELSE ApplyMarks(marks, k + 1, WrapMark(marks[k], text))

TextComponent_toMarkdown(node) ==
    LET text == IF Has(node, "text") THEN node.text ELSE <<>>
    IN IF Has(node, "marks") THEN ApplyMarks(node.marks, 1, text) ELSE text

getPanelIcon(panelType) ==
    CASE panelType = <<"info">> -> IconInfo
      [] panelType = <<"note">> -> IconNote
      [] panelType = <<"warning">> -> IconWarning
      [] panelType = <<"error">> -> IconError
      [] panelType = <<"success">> -> IconCheck
      [] OTHER -> IconBullet

\* (node.attrs?.state as string) || default
State(node, default) ==
    IF Has(node, "attrs") /\ Has(node.attrs, "state") THEN node.attrs.state ELSE default

\* the marker of ListItemComponent
Marker(context, bullet) ==
    IF Has(context, "orderedListCounter")
    THEN NumChars(context.orderedListCounter) \o <<".">>
    ELSE <<bullet>>

ListContext(context) == With(context, "listDepth", context.listDepth + 1)

ItemContext(context, index) ==
    With(With(ListContext(context), "orderedListCounter", 1), "orderedListCounter", index)

MediaComponent_toMarkdown(node) ==
    LET attrs == IF Has(node, "attrs") THEN node.attrs ELSE [none |-> 0]
        id == IF Has(attrs, "id") THEN attrs.id ELSE <<"undefined">>
        alt == StrAttr(node, "alt", <<"media">>)
    IN IF Has(attrs, "type") /\ attrs.type = "file"
       THEN <<"!", "[">> \o alt \o <<"]", "(", "attachment", ":">> \o id \o <<")", NL, NL>>
       ELSE <<"[", "Media", ":", " ">> \o id \o <<"]", NL, NL>>

StatusComponent_toMarkdown(node) ==
    <<"[">> \o ToUpperCase(StrAttr(node, "color", <<"neutral">>)) \o <<":", " ">>
    \o StrAttr(node, "text", <<>>) \o <<"]">>

EmojiText(node) ==
    LET shortName == StrAttr(node, "shortName", <<>>)
        text == StrAttr(node, "text", <<>>)
    IN IF text # <<>> THEN text ELSE <<":">> \o shortName \o <<":">>

EmojiComponent_toMarkdown(node) ==
    LET shortName == StrAttr(node, "shortName", <<>>)
        text == StrAttr(node, "text", shortName)
    IN IF text # <<>> THEN text ELSE <<":">> \o shortName \o <<":">>

\* date.toLocaleDateString() depends on the locale: one character stands for it
DateText(node) ==
    IF Has(node, "attrs") /\ Has(node.attrs, "timestamp") /\ node.attrs.timestamp # 0
    THEN <<"toLocaleDateString">>
    ELSE <<"[", "Date", "]">>

RECURSIVE toMarkdown(_, _), renderChildren(_, _), TableComponent_toMarkdown(_, _)

\* BaseMarkdownComponent.renderChildren
renderChildren(children, context) ==
    LET Render(child) ==
            IF child.type \in Registered THEN toMarkdown(child, context)
            ELSE renderUnknown(child)
    IN Concat(Map(children, Render))

TableComponent_toMarkdown(node, context) ==
    LET rows == Children(node)
        IsRow(row) == row.type = "tableRow"
        tableRows == SelectSeq(rows, IsRow)
        CellContents(row) ==
            LET Cell(cell) ==
                    LET content == Trim(renderChildren(Children(cell), context))
                    IN IF content # <<>> THEN content ELSE <<" ">>
            IN Map(Children(row), Cell)
        Dashes(cell) == <<"-", "-", "-">>
        Line(cells) == <<"|", " ">> \o Join(cells, <<" ", "|", " ">>) \o <<" ", "|">>
        \* the separator follows the first tableRow
        Lines(k) ==
            LET cells == CellContents(tableRows[k])
            IN IF k = 1 THEN <<Line(cells), Line(Map(cells, Dashes))>>
               ELSE <<Line(cells)>>
        result == Concat([k \in 1..Len(tableRows) |-> Lines(k)])
    IN IF Len(rows) = 0 THEN <<>>
       ELSE Join(result, <<NL>>) \o <<NL, NL>>

toMarkdown(node, context) ==
    LET content == renderChildren(Children(node), context)
    IN CASE node.type \in {"doc", "tableRow", "tableCell", "tableHeader", "mediaSingle"} ->
                content
         [] node.type = "paragraph" -> content \o <<NL, NL>>
         [] node.type = "text" -> TextComponent_toMarkdown(node)
         [] node.type = "heading" ->
                Repeat(<<"#">>, Level(node)) \o <<" ">> \o content \o <<NL, NL>>
         [] node.type = "bulletList" ->
                renderChildren(Children(node), ListContext(context)) \o <<NL>>
         [] node.type = "orderedList" ->
                LET Item(index) ==
                        LET child == node.content[index]
                        IN IF child.type \in Registered
                           THEN toMarkdown(child, ItemContext(context, index))
                           ELSE renderUnknown(child)
                IN Concat([index \in 1..Len(Children(node)) |-> Item(index)]) \o <<NL>>
         [] node.type = "listItem" ->
                Repeat(<<" ", " ">>, context.listDepth - 1)
                \o Marker(context, "-") \o <<" ">> \o Trim(content) \o <<NL>>
         [] node.type = "codeBlock" ->
                <<Backtick, Backtick, Backtick>> \o StrAttr(node, "language", <<>>) \o <<NL>>
                \o renderChildren(Children(node), With(context, "inCodeBlock", TRUE))
                \o <<NL, Backtick, Backtick, Backtick, NL, NL>>
         [] node.type = "blockquote" ->
                LET Quote(line) == <<">", " ">> \o line
                IN Join(Map(Split(content, NL), Quote), <<NL>>) \o <<NL>>
         [] node.type = "rule" -> <<NL, "-", "-", "-", NL, NL>>
         [] node.type = "hardBreak" -> <<" ", " ", NL>>
         [] node.type = "panel" ->
                LET panelType == StrAttr(node, "panelType", <<"info">>)
                IN <<">", " ", getPanelIcon(panelType), " ", "*", "*">>
                   \o ToUpperCase(panelType) \o <<"*", "*", NL, ">", " ">>
                   \o Join(Split(Trim(content), NL), <<NL, ">", " ">>) \o <<NL, NL>>
         [] node.type \in {"decisionList", "taskList"} -> content \o <<NL>>
         [] node.type = "decisionItem" ->
                <<"-", " ", "[",
                  IF State(node, "DECIDED") = "DECIDED" THEN IconCheck ELSE IconCircle,
                  "]", " ">> \o <<"*", "*", "DECISION", "*", "*", ":", " ">> \o Trim(content) \o <<NL>>
         [] node.type = "taskItem" ->
                <<"-", " ", "[", IF State(node, "TODO") = "DONE" THEN "x" ELSE " ", "]", " ">>
                \o Trim(content) \o <<NL>>
         [] node.type = "table" -> TableComponent_toMarkdown(node, context)
         [] node.type = "media" -> MediaComponent_toMarkdown(node)
         [] node.type = "expand" ->
                <<"<", "details", ">", NL, "<", "summary", ">">> \o StrAttr(node, "title", <<"Expand">>)
                \o <<"<", "/", "summary", ">", NL, NL>> \o content \o <<NL, "<", "/", "details", ">", NL, NL>>
         [] node.type = "status" -> StatusComponent_toMarkdown(node)
         [] node.type = "emoji" -> EmojiComponent_toMarkdown(node)
         [] node.type = "mention" -> <<"@">> \o StrAttr(node, "text", <<>>)
         [] node.type = "date" -> DateText(node)

----------------------------------------------------------------------------
(* The read-view projector: toReadView of every component.  A read-view node *)
(* is [content, children]; a node without children has the empty sequence    *)
(* (the flatteners read children only through "children && children.length").*)
(* Styles and source-node references do not reach the line contents and are  *)
(* left out.                                                                 *)

ReadViewNode(content, children) == [content |-> content, children |-> children]

RECURSIVE toReadView(_, _), renderChildrenReadView(_, _)

\* BaseMarkdownComponent.renderChildrenReadView
renderChildrenReadView(children, context) ==
    LET Render(child) ==
            IF child.type \in Registered THEN toReadView(child, context)
            ELSE createUnknownReadViewNode(child)
    IN Map(children, Render)

toReadView(node, context) ==
    LET children == renderChildrenReadView(Children(node), context)
    IN CASE node.type \in {"doc", "paragraph", "decisionList", "taskList", "table",
                           "tableCell", "tableHeader", "mediaSingle"} ->
                ReadViewNode(<<>>, children)
         [] node.type = "text" ->
                ReadViewNode(IF Has(node, "text") THEN node.text ELSE <<>>, <<>>)
         [] node.type = "heading" ->
                ReadViewNode(Repeat(<<"#">>, Level(node)) \o <<" ">>, children)
         [] node.type = "bulletList" ->
                ReadViewNode(<<>>,
                             renderChildrenReadView(Children(node), ListContext(context)))
         [] node.type = "orderedList" ->
                LET Item(index) ==
                        LET child == node.content[index]
                        IN IF child.type \in Registered
                           THEN toReadView(child, ItemContext(context, index))
                           ELSE createUnknownReadViewNode(child)
                IN ReadViewNode(<<>>, [index \in 1..Len(Children(node)) |-> Item(index)])
         [] node.type = "listItem" ->
                ReadViewNode(Repeat(<<" ", " ">>, context.listDepth - 1)
                             \o Marker(context, IconBullet) \o <<" ">>,
                             children)
         [] node.type = "codeBlock" ->
                ReadViewNode(<<Backtick, Backtick, Backtick>>
                             \o StrAttr(node, "language", <<>>) \o <<NL>>,
                             renderChildrenReadView(Children(node),
                                                    With(context, "inCodeBlock", TRUE)))
         [] node.type \in {"blockquote", "tableRow"} ->
                ReadViewNode(<<IconBar, " ">>, children)
         [] node.type = "rule" -> ReadViewNode(Repeat(<<IconDash>>, 40), <<>>)
         [] node.type = "hardBreak" -> ReadViewNode(<<NL>>, <<>>)
         [] node.type = "panel" ->
                LET panelType == StrAttr(node, "panelType", <<"info">>)
                IN ReadViewNode(<<getPanelIcon(panelType), " ", "[">>
                                \o ToUpperCase(panelType) \o <<"]", " ">>,
                                children)
         [] node.type = "decisionItem" ->
                ReadViewNode(<<"[",
                               IF State(node, "DECIDED") = "DECIDED"
                               THEN IconCheck ELSE IconCircle,
                               "]", " ", "DECISION", ":", " ">>,
                             children)
         [] node.type = "taskItem" ->
                ReadViewNode(<<IF State(node, "TODO") = "DONE"
                               THEN IconBoxChecked ELSE IconBoxEmpty, " ">>,
                             children)
         [] node.type = "media" ->
                ReadViewNode(<<"[", IconClip, " ">> \o StrAttr(node, "alt", <<"media">>)
                             \o <<"]">>, <<>>)
         [] node.type = "expand" ->
                ReadViewNode(<<IconTriangle, " ">> \o StrAttr(node, "title", <<"Expand">>)
                             \o <<NL>>, children)
         [] node.type = "status" ->
                ReadViewNode(<<"[">> \o StrAttr(node, "text", <<>>) \o <<"]">>, <<>>)
         [] node.type = "emoji" -> ReadViewNode(EmojiText(node), <<>>)
         [] node.type = "mention" ->
                ReadViewNode(<<"@">> \o StrAttr(node, "text", <<>>), <<>>)
         [] node.type = "date" -> ReadViewNode(DateText(node), <<>>)

----------------------------------------------------------------------------
(* The block dispatcher *)

parsingComponents ==
    <<"codeBlock", "heading", "rule", "blockquote", "taskList", "bulletList",
      "orderedList", "table", "paragraph">>

canParse(component, context) ==
    CASE component = "codeBlock" -> CodeBlockComponent_canParse(context)
      [] component = "heading" -> HeadingComponent_canParse(context)
      [] component = "rule" -> RuleComponent_canParse(context)
      [] component = "blockquote" -> BlockquoteComponent_canParse(context)
      [] component = "taskList" -> TaskListComponent_canParse(context)
      [] component = "bulletList" -> BulletListComponent_canParse(context)
      [] component = "orderedList" -> OrderedListComponent_canParse(context)
      [] component = "table" -> TableComponent_canParse(context)
      [] component = "paragraph" -> ParagraphComponent_canParse(context)

\* parseFromMarkdown of the components that do not recurse into the dispatcher
parseFromMarkdown(component, context, ids) ==
    CASE component = "codeBlock" -> CodeBlockComponent_parseFromMarkdown(context, ids)
      [] component = "heading" -> HeadingComponent_parseFromMarkdown(context, ids)
      [] component = "rule" -> RuleComponent_parseFromMarkdown(context, ids)
      [] component = "taskList" -> TaskListComponent_parseFromMarkdown(context, ids)
      [] component = "bulletList" -> BulletListComponent_parseFromMarkdown(context, ids)
      [] component = "orderedList" -> OrderedListComponent_parseFromMarkdown(context, ids)
      [] component = "table" -> TableComponent_parseFromMarkdown(context, ids)
      [] component = "paragraph" -> ParagraphComponent_parseFromMarkdown(context, ids)

\* The for loop of parseBlockWithContext from component k on.  The outcome is
\*   [kind |-> "node", node, currentLine, uuid]  a component committed;
\*   [kind |-> "quote", enter, uuid]             the blockquote component is entered:
\*                                               its node comes when its own loop ends;
\*   [kind |-> "none", currentLine, uuid]        no component committed: the line is
\*                                               stepped over.
RECURSIVE TryComponents(_, _, _)
TryComponents(k, context, ids) ==
    IF k > Len(parsingComponents)
    THEN [kind |-> "none", currentLine |-> context.currentLine + 1, uuid |-> ids]
    ELSE LET Commit(result) ==
                 IF result.consumed /\ Has(result, "node")
                 THEN [kind |-> "node", node |-> result.node,
                       currentLine |-> result.currentLine, uuid |-> result.uuid]
                 ELSE TryComponents(k + 1,
                                    [context EXCEPT !.currentLine = result.currentLine],
                                    result.uuid)
         IN IF ~canParse(parsingComponents[k], context)
            THEN TryComponents(k + 1, context, ids)
            ELSE IF parsingComponents[k] = "blockquote"
            THEN [kind |-> "quote", enter |-> QuotedContext(context), uuid |-> ids]
            ELSE Commit(parseFromMarkdown(parsingComponents[k], context, ids))

parseBlockWithContext(context, ids) ==
    IF Trim(CurrentLine(context)) = <<>>
    THEN [kind |-> "blank", currentLine |-> context.currentLine + 1, uuid |-> ids]
    ELSE TryComponents(1, context, ids)

----------------------------------------------------------------------------
(* The standalone parser (markdown-parser), which the page view parses edited *)
(* Markdown with.  Its loops are those of the components but for the bullet   *)
(* list and the paragraph.                                                    *)

parseBulletList(context, ids) ==
    LET end == RunEnd("parseBulletList", context.lines, context.currentLine)
        taken == SubSeq(context.lines, context.currentLine + 1, end)
        Entry(line) == ListItem(BulletText(line))
    IN Result([type |-> "bulletList", content |-> Map(taken, Entry)], end, ids)

parseParagraph(context, ids) ==
    LET end == RunEnd("parseParagraph", context.lines, context.currentLine)
        text == Join(SubSeq(context.lines, context.currentLine + 1, end), <<NL>>)
    IN Result(Paragraph(parseInlineContent(text)), end, ids)

\* the if chain of parseBlock; the outcome is shaped like TryComponents'
parseBlock(context, ids) ==
    LET line == CurrentLine(context)
        Node(result) == [kind |-> "node", node |-> result.node,
                         currentLine |-> result.currentLine, uuid |-> result.uuid]
    IN IF Trim(line) = <<>>
       THEN [kind |-> "blank", currentLine |-> context.currentLine + 1, uuid |-> ids]
       ELSE IF IsFenceLine(line) THEN Node(CodeBlockComponent_parseFromMarkdown(context, ids))
       ELSE IF IsHeadingLine(line) THEN Node(HeadingComponent_parseFromMarkdown(context, ids))
       ELSE IF IsRuleLine(line) THEN Node(RuleComponent_parseFromMarkdown(context, ids))
       ELSE IF IsQuoteLine(line)
            THEN [kind |-> "quote", enter |-> QuotedContext(context), uuid |-> ids]
       ELSE IF IsTaskLine(line) THEN Node(TaskListComponent_parseFromMarkdown(context, ids))
       ELSE IF IsBulletLine(line) THEN Node(parseBulletList(context, ids))
       ELSE IF IsOrderedLine(line)
            THEN Node(OrderedListComponent_parseFromMarkdown(context, ids))
       ELSE IF IsTableLine(line) THEN Node(TableComponent_parseFromMarkdown(context, ids))
       ELSE Node(parseParagraph(context, ids))

Parsers == {"markdown-components", "markdown-parser"}

----------------------------------------------------------------------------
(* The conversion passes as a state machine *)

Nothing == [type |-> "none"]

\* a parse context with the nodes its loop has collected
Frame(lines) == [lines |-> lines, currentLine |-> 0, content |-> <<>>]

Top == frames[Len(frames)]

\* a dispatcher call is due in the innermost open loop
Dispatching ==
    /\ pc = "parse"
    /\ frames # <<>>
    /\ Top.currentLine < Len(Top.lines)
    /\ stuck < MaxStuck

Dispatched ==
    LET context == [lines |-> Top.lines, currentLine |-> Top.currentLine]
    IN IF parser = "markdown-parser" THEN parseBlock(context, uuid)
       ELSE parseBlockWithContext(context, uuid)

ConversionIdle == UNCHANGED <<readViewRoot, readViewLines, work, view, parser>> /\ PageViewIdle

\* PageCache.adfToMarkdown, and the start of parseMarkdownToADF on its result
Serialize ==
    /\ pc = "serialize"
    /\ markdown' = toMarkdown(adf, createRenderContext)
    /\ frames' = <<Frame(Split(markdown', NL))>>
    /\ pc' = "parse"
    /\ UNCHANGED <<adf, uuid, stuck, parsed, output>>
    /\ ConversionIdle

\* parseBlockWithContext on a blank line (or on a line no component commits to)
SkipLine ==
    /\ Dispatching
    /\ LET Return(r) ==
               /\ r.kind \in {"blank", "none"}
               /\ frames' = [frames EXCEPT ![Len(frames)].currentLine = r.currentLine]
               /\ uuid' = r.uuid
       IN Return(Dispatched)
    /\ UNCHANGED <<pc, adf, markdown, stuck, parsed, output>>
    /\ ConversionIdle

\* parseBlockWithContext returning the node of the first component that commits
ParseBlock ==
    /\ Dispatching
    /\ LET Return(r) ==
               /\ r.kind = "node"
               /\ frames' = [frames EXCEPT ![Len(frames)] =
                               [@ EXCEPT !.currentLine = r.currentLine,
                                         !.content = Append(@, r.node)]]
               /\ uuid' = r.uuid
               /\ stuck' = IF r.currentLine > Top.currentLine THEN stuck ELSE stuck + 1
       IN Return(Dispatched)
    /\ UNCHANGED <<pc, adf, markdown, parsed, output>>
    /\ ConversionIdle

\* BlockquoteComponent.parseFromMarkdown up to its nested loop
EnterBlockquote ==
    /\ Dispatching
    /\ LET Enter(r) ==
               /\ r.kind = "quote"
               /\ frames' = Append([frames EXCEPT ![Len(frames)].currentLine = r.enter.end],
                                   Frame(r.enter.context.lines))
       IN Enter(Dispatched)
    /\ UNCHANGED <<pc, adf, markdown, uuid, stuck, parsed, output>>
    /\ ConversionIdle

\* BlockquoteComponent.parseFromMarkdown from the end of its nested loop
LeaveBlockquote ==
    /\ pc = "parse"
    /\ Len(frames) > 1
    /\ Top.currentLine >= Len(Top.lines)
    /\ LET node == [type |-> "blockquote",
                    content |-> IF Len(Top.content) > 0 THEN Top.content
                                ELSE <<Paragraph(<<>>)>>]
           outer == Len(frames) - 1
       IN frames' = [SubSeq(frames, 1, outer) EXCEPT
                        ![outer].content = Append(@, node)]
    /\ UNCHANGED <<pc, adf, markdown, uuid, stuck, parsed, output>>
    /\ ConversionIdle

\* the return of parseMarkdownToADF
FinishParse ==
    /\ pc = "parse"
    /\ Len(frames) = 1
    /\ Top.currentLine >= Len(Top.lines)
    /\ parsed' = [type |-> "doc", version |-> 1, content |-> Top.content]
    /\ frames' = <<>>
    /\ pc' = "parsed"
    /\ UNCHANGED <<adf, markdown, uuid, stuck, output>>
    /\ ConversionIdle

\* PageCache.adfToMarkdown of the parsed document
Reserialize ==
    /\ pc = "parsed"
    /\ output' = toMarkdown(parsed, createRenderContext)
    /\ pc' = "done"
    /\ UNCHANGED <<adf, markdown, frames, uuid, stuck, parsed>>
    /\ ConversionIdle

----------------------------------------------------------------------------
(* Markdown inputs of the parse pass *)

\* lines of the kinds the dispatcher distinguishes, and the near misses
LinePool ==
    { <<>>,
      <<"p">>,
      <<"#", " ", "h">>,
      <<"#", "x">>,
      <<">", " ", "q">>,
      <<">", " ", "#", "x">>,
      <<"-", " ", "[", " ", "]", " ", "t">>,
      <<"*", " ", "[", "X", "]", " ", "u">>,
      <<"-", " ", "[", "x", "]", "y">>,
      <<"-", " ", "b">>,
      <<Backtick, Backtick, Backtick>> }

RECURSIVE Seqs(_, _)
\* the sequences over S of length at most n
Seqs(S, n) ==
    IF n = 0 THEN {<<>>}
    ELSE LET shorter == Seqs(S, n - 1)
         IN shorter \cup {Append(q, x) : q \in shorter, x \in S}

Words == {"foo", "bar"}

\* a heading, a paragraph with a bold and an italic word, and a task list
\* with an open and a done item, separated by blank lines
Scenario(w) ==
    <<"#", " ", w[1], NL, NL,
      w[2], " ", "*", "*", w[3], "*", "*", " ", w[4], " ", "*", w[5], "*", " ", w[6], NL, NL,
      "-", " ", "[", " ", "]", " ", w[7], NL,
      "-", " ", "[", "x", "]", " ", w[8]>>

ScenarioInputs == {Scenario(w) : w \in [1..8 -> Words]}

\* one sample of what each matcher of the inline cascade takes, in its order
InlineSamples ==
    << <<Backtick, "a", Backtick>>,
       <<"*", "*", "*", "a", "*", "*", "*">>,
       <<"*", "*", "a", "*", "*">>,
       <<"*", "a", "*">>,
       <<"~", "~", "a", "~", "~">>,
       <<"[", "a", "]", "(", "u", ")">>,
       <<"a", " ", " ", NL, "b">> >>

\* paragraphs in which two matchers compete, and one in which none fires
CascadeInputs ==
    {InlineSamples[i] \o <<"x">> \o InlineSamples[j] :
        i \in DOMAIN InlineSamples, j \in DOMAIN InlineSamples} \cup {<<"x", "y">>}

Fence == <<Backtick, Backtick, Backtick>>

\* opening fences: bare, with a language, with blanks around the language
FenceOpenings == {Fence, Fence \o <<"j", "s">>, Fence \o <<" ", "j", " ">>}

\* lines that would be inline or block markup outside a fence
FencedLines == {<<"*", "a", "*">>, <<"#", " ", "h">>, <<>>, <<">", " ", "q">>}

\* what follows the fenced lines: nothing, a closing fence, text after it
FenceEndings == {<<>>, <<Fence>>, <<Fence \o <<"x">>, <<"p">>>>}

\* fenced code at the top level, and one fence inside a blockquote
FenceInputs ==
    {Join(<<open>> \o body \o ending, <<NL>>) :
        open \in FenceOpenings, body \in Seqs(FencedLines, 2), ending \in FenceEndings}
    \cup {Join(<< <<">", " ">> \o Fence \o <<"j">>, <<">", " ", "*", "a", "*">>, <<"p">> >>,
                <<NL>>)}

\* quotes in quotes, bare quote markers, and a line after the quoted run
QuoteInputs ==
    {Join(ls, <<NL>>) :
        ls \in { << <<">", " ", ">", " ", "q">> >>,
                 << <<">", " ", ">", " ", ">", " ", "q">>, <<">", " ", "p">>, <<"p">> >>,
                 << <<">">>, <<">">>, <<"-", " ", "b">> >>,
                 << <<">", " ", ">">>, <<">", "q">> >>,
                 << <<">", " ", "-", " ", "b">>, <<">">>, <<">", " ", "#", " ", "h">>,
                    <<"#", " ", "h">> >> }}

\* task lists at the top level and inside a blockquote, in one text
TaskInputs ==
    {Join(<< <<"-", " ", "[", " ", "]", " ", "t">>,
             <<"*", " ", "[", "x", "]", " ", "u">>,
             <<">", " ", "-", " ", "[", "X", "]", " ", "v">>,
             <<">", " ", "*", " ", " ", "[", " ", "]", " ", "w">>,
             <<"-", " ", "[", "X", "]", " ", "y">> >>, <<NL>>)}

MarkdownInputs ==
    {Join(ls, <<NL>>) : ls \in Seqs(LinePool, MaxLines) \ {<<>>}}
        \cup ScenarioInputs \cup CascadeInputs \cup FenceInputs \cup QuoteInputs
        \cup TaskInputs

InitParse ==
    /\ markdown \in MarkdownInputs
    /\ frames = <<Frame(Split(markdown, NL))>>
    /\ pc = "parse"
    /\ adf = Nothing
    /\ uuid = 0
    /\ stuck = 0
    /\ parsed = Nothing
    /\ output = <<>>
    /\ readViewRoot = Nothing
    /\ readViewLines = <<>>
    /\ work = <<>>
    /\ view = "none"
    /\ parser \in Parsers
    /\ PageViewConstructed

NextParse ==
    \/ SkipLine
    \/ ParseBlock
    \/ EnterBlockquote
    \/ LeaveBlockquote
    \/ FinishParse
    \/ Reserialize

SpecParse == InitParse /\ [][NextParse]_vars

----------------------------------------------------------------------------
(* Claims about the parse pass, checked under SpecParse *)

\* C1: every call of the block dispatcher made with the cursor inside the
\* line array leaves the cursor of that loop strictly greater than before,
\* whatever the current line is, in the top-level loop and in the nested
\* loop of a blockquote (so parseMarkdownToADF terminates).
C1_CursorAdvances ==
    [][Dispatching => frames'[Len(frames)].currentLine > Top.currentLine]_vars

\* `- [ ] text` / `- [x] text`: marker - or *, a box holding a space, x or X,
\* and a non-empty text
TaskForm(line) ==
    /\ Len(line) >= 7
    /\ line[1] \in {"-", "*"}
    /\ line[2] = " "
    /\ line[3] = "["
    /\ line[4] \in {" ", "x", "X"}
    /\ line[5] = "]"
    /\ line[6] = " "
    /\ ~IsSpace(line[7])

\* `- text` without the checkbox form
BulletForm(line) ==
    /\ Len(line) >= 3
    /\ line[1] \in {"-", "*"}
    /\ line[2] = " "
    /\ ~IsSpace(line[3])
    /\ ~TaskForm(line)

\* the lines a dispatcher call with outcome r takes from the innermost loop
Taken(r) == SubSeq(Top.lines, Top.currentLine + 1, r.currentLine)

\* C5: a dispatcher call on a line of the task form yields a taskList with one
\* taskItem per line it takes, a call on a line of the plain bullet form
\* yields a bulletList with one listItem per line it takes, and a bulletList
\* never takes a line of the task form (also when that line directly follows
\* plain bullet lines).
C5_TaskOrBullet ==
    Dispatching =>
        LET line == Top.lines[Top.currentLine + 1]
            r == Dispatched
        IN /\ TaskForm(line) =>
                /\ r.kind = "node"
                /\ r.node.type = "taskList"
                /\ Len(r.node.content) = Len(Taken(r))
                /\ \A i \in 1..Len(Taken(r)) :
                      r.node.content[i].type = "taskItem" /\ TaskForm(Taken(r)[i])
           /\ BulletForm(line) =>
                /\ r.kind = "node"
                /\ r.node.type = "bulletList"
                /\ Len(r.node.content) = Len(Taken(r))
                /\ \A i \in 1..Len(Taken(r)) :
                      r.node.content[i].type = "listItem" /\ BulletForm(Taken(r)[i])

Text(t) == [type |-> "text", text |-> t]

Marked(t, mark) == [type |-> "text", text |-> t, marks |-> <<[type |-> mark]>>]

\* the lines of a text that are not blank
NonBlankLines(text) == SelectSeq(Split(text, NL), LAMBDA line : Trim(line) # <<>>)

\* C6: the scenario text parses into exactly a level-1 heading with the
\* heading text, a paragraph of the five inline nodes [plain, strong, plain,
\* em, plain] and one taskList of two taskItems in states TODO then DONE, in
\* source order; serializing that tree yields the input up to blank lines.
C6_Scenario ==
    \A w \in [1..8 -> Words] :
        (pc \in {"parsed", "done"} /\ markdown = Scenario(w)) =>
            /\ pc \in {"parsed", "done"} =>
                /\ Len(parsed.content) = 3
                /\ parsed.content[1] =
                      [type |-> "heading", attrs |-> [level |-> 1],
                       content |-> <<Text(<<w[1]>>)>>]
                /\ parsed.content[2] =
                      Paragraph(<<Text(<<w[2], " ">>), Marked(<<w[3]>>, "strong"),
                                  Text(<<" ", w[4], " ">>), Marked(<<w[5]>>, "em"),
                                  Text(<<" ", w[6]>>)>>)
                /\ parsed.content[3].type = "taskList"
                /\ Len(parsed.content[3].content) = 2
                /\ LET item == parsed.content[3].content
                   IN /\ item[1].type = "taskItem" /\ item[2].type = "taskItem"
                      /\ item[1].attrs.state = "TODO" /\ item[2].attrs.state = "DONE"
                      /\ item[1].content = <<Text(<<w[7]>>)>>
                      /\ item[2].content = <<Text(<<w[8]>>)>>
            /\ pc = "done" => NonBlankLines(output) = NonBlankLines(markdown)

C6_ScenarioReserialized ==
    /\ pc = "done"
    /\ markdown \in ScenarioInputs
    /\ Len(parsed.content) = 3
    /\ output # <<>>

----------------------------------------------------------------------------
(* Documents of the round trip serialize-then-parse *)

Doc(content) == [type |-> "doc", version |-> 1, content |-> content]

RECURSIVE DistinctSeqs(_, _)
\* the sequences of distinct elements of S of length at most n
DistinctSeqs(S, n) ==
    IF n = 0 THEN {<<>>}
    ELSE LET shorter == DistinctSeqs(S, n - 1)
         IN shorter \cup UNION {{Append(q, x) : x \in S \ {q[i] : i \in 1..Len(q)}} : q \in shorter}

MarkTypes == {"strong", "em", "code", "strike", "underline"}

MarkedWord(word, types) ==
    IF types = <<>> THEN Text(<<word>>)
    ELSE [type |-> "text", text |-> <<word>>,
          marks |-> [i \in 1..Len(types) |-> [type |-> types[i]]]]

\* one paragraph holding one text node
TextDoc(word, types) == Doc(<<Paragraph(<<MarkedWord(word, types)>>)>>)

TextDocs == {TextDoc(word, types) : word \in Words, types \in DistinctSeqs(MarkTypes, MaxMarks)}

CellTexts == {<<>>, <<"a">>}

\* a table of a header row and body rows; cells[r][c] is the text of a cell
TableOf(cells) ==
    LET Cell(r, c) ==
            [type |-> IF r = 1 THEN "tableHeader" ELSE "tableCell",
             content |-> <<Paragraph(IF cells[r][c] = <<>> THEN <<>>
                                     ELSE <<Text(cells[r][c])>>)>>]
        Row(r) == [type |-> "tableRow",
                   content |-> [c \in 1..Len(cells[r]) |-> Cell(r, c)]]
    IN [type |-> "table",
        attrs |-> [isNumberColumnEnabled |-> FALSE, layout |-> "default"],
        content |-> [r \in 1..Len(cells) |-> Row(r)]]

TableDocs ==
    {Doc(<<TableOf(cells)>>) :
        cells \in UNION {[1..(k + 1) -> [1..n -> CellTexts]] :
                            k \in 1..MaxBodyRows, n \in 1..MaxCols}}

PlainItem(word) == [type |-> "listItem", content |-> <<Paragraph(<<Text(<<word>>)>>)>>]

\* identifiers the identifier source has handed out before the pass
DrawnBefore == <<1, 2>>

BlockPool ==
    { Paragraph(<<Text(<<"a">>)>>),
      Paragraph(<<Text(<<"#", "x">>)>>),
      Paragraph(<<Text(<<"a", " ">>), MarkedWord("b", <<"strong">>)>>),
      [type |-> "heading", attrs |-> [level |-> 2], content |-> <<Text(<<"h">>)>>],
      [type |-> "bulletList", content |-> <<PlainItem("a"), PlainItem("b")>>],
      [type |-> "bulletList",
       content |-> <<[type |-> "listItem",
                      content |-> <<Paragraph(<<Text(<<"a">>)>>),
                                    [type |-> "bulletList", content |-> <<PlainItem("b")>>]>>]>>],
      [type |-> "orderedList", content |-> <<PlainItem("a"), PlainItem("b")>>],
      [type |-> "codeBlock", attrs |-> [language |-> <<"js">>], content |-> <<Text(<<"c">>)>>],
      [type |-> "blockquote", content |-> <<Paragraph(<<Text(<<"q">>)>>)>>],
      [type |-> "rule"],
      [type |-> "panel", attrs |-> [panelType |-> <<"info">>],
       content |-> <<Paragraph(<<Text(<<"p">>)>>)>>],
      [type |-> "taskList", attrs |-> [localId |-> DrawnBefore[2]],
       content |-> <<[type |-> "taskItem",
                      attrs |-> [state |-> "TODO", localId |-> DrawnBefore[1]],
                      content |-> <<Text(<<"t">>)>>]>>] }

BlockDocs == {Doc(blocks) : blocks \in Seqs(BlockPool, MaxBlocks) \ {<<>>}}

RoundTripDocs == TextDocs \cup TableDocs \cup BlockDocs

InitRoundTrip ==
    /\ adf \in RoundTripDocs
    /\ pc = "serialize"
    /\ markdown = <<>>
    /\ frames = <<>>
    /\ uuid = Len(DrawnBefore)
    /\ stuck = 0
    /\ parsed = Nothing
    /\ output = <<>>
    /\ readViewRoot = Nothing
    /\ readViewLines = <<>>
    /\ work = <<>>
    /\ view = "none"
    /\ parser \in Parsers
    /\ PageViewConstructed

NextRoundTrip ==
    \/ Serialize
    \/ SkipLine
    \/ ParseBlock
    \/ EnterBlockquote
    \/ LeaveBlockquote
    \/ FinishParse

SpecRoundTrip == InitRoundTrip /\ [][NextRoundTrip]_vars

----------------------------------------------------------------------------
(* Claims about the round trip, checked under SpecRoundTrip *)

RECURSIVE Normalized(_)
\* a tree with the whitespace taken out of its texts
Normalized(node) ==
    IF node.type = "text" /\ Has(node, "text")
    THEN [node EXCEPT !.text = SelectSeq(@, LAMBDA c : ~IsSpace(c))]
    ELSE IF Has(node, "content")
    THEN [node EXCEPT !.content = [i \in 1..Len(@) |-> Normalized(@[i])]]
    ELSE node

\* C2: for every document built from registered node types, parsing the
\* Markdown its serialization produced yields a tree equal to the document
\* up to whitespace.
C2_RoundTrip ==
    pc = "parsed" => Normalized(parsed) = Normalized(adf)

StrongEm == <<"strong", "em">>

IsTableDoc(doc) == Len(doc.content) = 1 /\ doc.content[1].type = "table"

\* C8: for a table of one header row and k >= 1 body rows of n >= 1 columns
\* whose cells hold text without pipes (or nothing), parsing its
\* serialization yields exactly one table of k+1 rows and n cells per row,
\* the first row of tableHeader cells and the later rows of tableCell cells,
\* each cell with the inline content of the original cell.
C8_TableRoundTrip ==
    (pc = "parsed" /\ adf \in TableDocs) =>
        /\ IsTableDoc(parsed)
        /\ LET original == adf.content[1].content
               rows == parsed.content[1].content
           IN /\ Len(rows) = Len(original)
              /\ \A r \in 1..Len(rows) :
                    /\ rows[r].type = "tableRow"
                    /\ Len(rows[r].content) = Len(original[r].content)
                    /\ \A c \in 1..Len(rows[r].content) :
                          /\ rows[r].content[c].type
                                = (IF r = 1 THEN "tableHeader" ELSE "tableCell")
                          /\ rows[r].content[c].content = original[r].content[c].content

----------------------------------------------------------------------------
(* Serializing and projecting arbitrary document trees *)

\* node shapes: registered types in and out of place, attributes in and out
\* of range, and a type tag that has no component
NodeShapes ==
    { Text(<<"t">>),
      [type |-> "paragraph"],
      [type |-> "heading", attrs |-> [level |-> 1]],
      [type |-> "heading", attrs |-> [level |-> 7]],
      [type |-> "heading", attrs |-> [level |-> -1]],
      [type |-> "bulletList"],
      [type |-> "orderedList"],
      [type |-> "listItem"],
      [type |-> "blockquote"],
      [type |-> "table"],
      [type |-> "tableRow"],
      [type |-> "tableCell"],
      [type |-> "panel", attrs |-> [panelType |-> <<"info">>]],
      [type |-> "panel", attrs |-> [panelType |-> NotAString]],
      [type |-> "foo"] }

RECURSIVE Nest(_, _)
\* the shapes from position i on, each the only child of the one before
Nest(shapes, i) ==
    IF i = Len(shapes) THEN shapes[i]
    ELSE With(shapes[i], "content", <<Nest(shapes, i + 1)>>)

\* a text node is a leaf
Nestings ==
    {shapes \in Seqs(NodeShapes, MaxDepth) \ {<<>>} :
        \A i \in 1..(Len(shapes) - 1) : shapes[i].type # "text"}

ListKinds == {"bulletList", "orderedList"}

RECURSIVE ListOf(_, _)
\* a list of the kinds from position i on: two items, the second of which
\* holds the list of the next kind
ListOf(kinds, i) ==
    [type |-> kinds[i],
     content |-> <<PlainItem("a"),
                   [type |-> "listItem",
                    content |-> <<Paragraph(<<Text(<<"b">>)>>)>>
                                \o (IF i < Len(kinds) THEN <<ListOf(kinds, i + 1)>>
                                    ELSE <<>>)]>>]

ListDocs == {Doc(<<ListOf(kinds, 1)>>) : kinds \in Seqs(ListKinds, MaxDepth) \ {<<>>}}

\* the marks a text node can carry: the six the serializer knows, the link
\* with and without its href
MarkPool ==
    {[type |-> type] : type \in MarkTypes \cup {"link"}}
        \cup {[type |-> "link", attrs |-> [href |-> <<"u">>]]}

\* one paragraph holding one text node with a mark sequence, repeats included
MarkDocs ==
    {Doc(<<Paragraph(<<[type |-> "text", text |-> <<"x">>, marks |-> marks]>>)>>) :
        marks \in Seqs(MarkPool, MaxMarks) \ {<<>>}}

RenderDocs == {Doc(<<Nest(shapes, 1)>>) : shapes \in Nestings} \cup ListDocs \cup MarkDocs

RECURSIVE ThrewTree(_)
\* an exception reached a content of the read-view tree
ThrewTree(tree) ==
    \/ Threw(tree.content)
    \/ \E i \in 1..Len(tree.children) : ThrewTree(tree.children[i])

InitRender ==
    /\ adf \in RenderDocs
    /\ pc = "render"
    /\ markdown = <<>>
    /\ frames = <<>>
    /\ uuid = 0
    /\ stuck = 0
    /\ parsed = Nothing
    /\ output = <<>>
    /\ readViewRoot = Nothing
    /\ readViewLines = <<>>
    /\ work = <<>>
    /\ view = "none"
    /\ parser = "none"
    /\ PageViewConstructed

\* PageCache.adfToMarkdown: the serialization, or the exception it raises
ToMarkdown ==
    /\ pc = "render"
    /\ LET result == toMarkdown(adf, createRenderContext)
       IN IF Threw(result)
          THEN pc' = "threw" /\ output' = output
          ELSE pc' = "serialized" /\ output' = result
    /\ UNCHANGED <<adf, markdown, frames, uuid, stuck, parsed,
                   readViewRoot, readViewLines, work, view, parser>>
    /\ PageViewIdle

\* docComponent.toReadView in render(): the projection, or the exception it raises
ToReadView ==
    /\ pc = "render"
    /\ LET result == toReadView(adf, createRenderContext)
       IN IF ThrewTree(result)
          THEN pc' = "threw" /\ readViewRoot' = readViewRoot
          ELSE pc' = "projected" /\ readViewRoot' = result
    /\ UNCHANGED <<adf, markdown, frames, uuid, stuck, parsed,
                   output, readViewLines, work, view, parser>>
    /\ PageViewIdle

NextRender == ToMarkdown \/ ToReadView

SpecRender == InitRender /\ [][NextRender]_vars

\* C3: for every document tree, whatever its node types, attribute values and
\* nesting (a listItem outside any list, a heading level outside 1..6),
\* serializing to Markdown and projecting to read-view return a result and
\* raise no error.
C3_NeverRaises == pc # "threw"

RECURSIVE HasType(_, _)
\* a node of the type occurs in the tree
HasType(node, type) ==
    \/ node.type = type
    \/ \E i \in 1..Len(Children(node)) : HasType(node.content[i], type)

\* the label of the fallback for a type tag
Label(type) == <<"[", "Unknown", " ", "Component", ":", " ", type, "]">>

Contains(text, part) == \E i \in 1..Len(text) : At(text, i, part)

RECURSIVE TreeContains(_, _)
TreeContains(tree, part) ==
    \/ Contains(tree.content, part)
    \/ \E i \in 1..Len(tree.children) : TreeContains(tree.children[i], part)

\* C4: for every document in which a node with an unregistered type tag
\* occurs at any position (top level, child of a list, child of a table or
\* of a table row, inside an inline container), serializing and projecting
\* complete without throwing and the output holds the type tag as a label.
C4_UnknownLabelled ==
    HasType(adf, "foo") =>
        /\ pc # "threw"
        /\ pc = "serialized" => Contains(output, Label("foo"))
        /\ pc = "projected" => TreeContains(readViewRoot, Label("foo"))

----------------------------------------------------------------------------
(* Flattening the read-view tree into display lines *)

Line(content) == [content |-> content]

\* part === "" && lastLine?.content === ""
IsConsecutiveEmpty_never(lines, text) == FALSE

IsConsecutiveEmpty(lines, text) ==
    text = <<>> /\ Len(lines) > 0 /\ lines[Len(lines)].content = <<>>

\* the branch of a node without children
LeafPush(lines, currentLine) ==
    IF (currentLine # <<>> \/ Len(lines) = 0) /\ ~IsConsecutiveEmpty(lines, currentLine)
    THEN Append(lines, Line(currentLine))
    ELSE lines

\* the recursive calls for the children: the first one carries the prefix
ChildCalls(children, childPrefix) ==
    [i \in 1..Len(children) |->
        [node |-> children[i], prefix |-> IF i = 1 THEN childPrefix ELSE <<>>]]

\* One call of a flattener leaves the lines it has pushed and the calls it
\* makes for the children, in order
PageView_flattenReadViewNode(lines, node, prefix) ==
    LET currentLine == prefix \o node.content
    IN IF Len(node.children) > 0
       THEN [readViewLines |-> lines, calls |-> ChildCalls(node.children, currentLine)]
       ELSE [readViewLines |-> LeafPush(lines, currentLine), calls |-> <<>>]

RECURSIVE PushParts(_, _, _, _)
\* the loop over the parts of a line that holds newlines, from part i on
PushParts(lines, parts, i, hasChildren) ==
    IF i > Len(parts) THEN lines
    ELSE LET part == parts[i]
             isLast == i = Len(parts)
         IN IF isLast /\ (hasChildren \/ part = <<>>) THEN lines
            ELSE PushParts(IF IsConsecutiveEmpty(lines, part) THEN lines
                           ELSE Append(lines, Line(part)),
                           parts, i + 1, hasChildren)

ConfluenceTUI_flattenReadViewNode(lines, node, prefix) ==
    LET whole == prefix \o node.content
        hasChildren == Len(node.children) > 0
        includesNewline == \E i \in 1..Len(whole) : whole[i] = NL
        parts == Split(whole, NL)
        split == IF includesNewline THEN PushParts(lines, parts, 1, hasChildren)
                 ELSE lines
        currentLine == IF includesNewline /\ hasChildren THEN parts[Len(parts)]
                       ELSE whole
    IN IF hasChildren
       THEN [readViewLines |-> split, calls |-> ChildCalls(node.children, currentLine)]
       ELSE [readViewLines |-> LeafPush(split, currentLine), calls |-> <<>>]

flattenReadViewNode(lines, node, prefix) ==
    IF view = "PageView" THEN PageView_flattenReadViewNode(lines, node, prefix)
    ELSE ConfluenceTUI_flattenReadViewNode(lines, node, prefix)

ContentPool == {<<>>, <<"a">>, <<NL>>, <<"a", NL, NL>>}

RECURSIVE TreesOf(_), ForestsOf(_)
\* the display trees of n nodes, and the sequences of trees of m nodes in all
TreesOf(n) ==
    {ReadViewNode(content, children) : content \in ContentPool, children \in ForestsOf(n - 1)}

ForestsOf(m) ==
    IF m = 0 THEN {<<>>}
    ELSE UNION {{<<tree>> \o rest : tree \in TreesOf(k), rest \in ForestsOf(m - k)} :
                   k \in 1..m}

\* display trees in which one node with children holds the content "r", met
\* nowhere else, as the root or as the only child of a root that holds "p"
MarkedTrees ==
    {ReadViewNode(<<"r">>, children) : children \in ForestsOf(MaxNodes - 1) \ {<<>>}}
    \cup {ReadViewNode(<<"p">>, <<ReadViewNode(<<"r">>, children)>>) :
             children \in ForestsOf(MaxNodes - 2) \ {<<>>}}

DisplayTrees == UNION {TreesOf(n) : n \in 1..MaxNodes} \cup MarkedTrees

FlattenBlocks ==
    { Paragraph(<<>>),
      Paragraph(<<Text(<<"a">>)>>),
      Paragraph(<<[type |-> "hardBreak"], Text(<<"a">>)>>),
      [type |-> "heading", attrs |-> [level |-> 1], content |-> <<Text(<<"h">>)>>],
      [type |-> "bulletList", content |-> <<PlainItem("b")>>],
      [type |-> "bulletList",
       content |-> <<[type |-> "listItem",
                      content |-> <<Paragraph(<<[type |-> "hardBreak"],
                                                Text(<<"a">>)>>)>>]>>],
      [type |-> "codeBlock", content |-> <<Text(<<"c">>)>>] }

FlattenDocs == {Doc(blocks) : blocks \in Seqs(FlattenBlocks, MaxBlocks)}

Views == {"ConfluenceTUI", "PageView"}

\* a page is set (its tree is to be projected), or a display tree is given
InitFlatten ==
    /\ view \in Views
    /\ \/ /\ pc = "project"
          /\ adf \in FlattenDocs
          /\ readViewRoot = Nothing
          /\ work = <<>>
       \/ /\ pc = "flatten"
          /\ adf = Nothing
          /\ readViewRoot \in DisplayTrees
          /\ work = <<[node |-> readViewRoot, prefix |-> <<>>]>>
    /\ readViewLines = <<>>
    /\ markdown = <<>>
    /\ frames = <<>>
    /\ uuid = 0
    /\ stuck = 0
    /\ parsed = Nothing
    /\ output = <<>>
    /\ parser = "none"
    /\ PageViewConstructed

\* render() up to the first call of flattenReadViewNode
Project ==
    /\ pc = "project"
    /\ readViewRoot' = toReadView(adf, createRenderContext)
    /\ readViewLines' = <<>>
    /\ work' = <<[node |-> readViewRoot', prefix |-> <<>>]>>
    /\ pc' = "flatten"
    /\ UNCHANGED <<adf, markdown, frames, uuid, stuck, parsed, output, view, parser>>
    /\ PageViewIdle

\* one call of flattenReadViewNode, the calls for the children left pending
FlattenNode ==
    /\ pc = "flatten"
    /\ work # <<>>
    /\ LET call == Head(work)
           result == flattenReadViewNode(readViewLines, call.node, call.prefix)
       IN /\ readViewLines' = result.readViewLines
          /\ work' = result.calls \o Tail(work)
    /\ pc' = IF work' = <<>> THEN "flattened" ELSE "flatten"
    /\ UNCHANGED <<adf, markdown, frames, uuid, stuck, parsed, output, readViewRoot, view,
                   parser>>
    /\ PageViewIdle

NextFlatten == Project \/ FlattenNode

SpecFlatten == InitFlatten /\ [][NextFlatten]_vars

\* C9: for every display tree, the lines flattening produces never hold two
\* consecutive lines with empty content: an empty line is pushed only after a
\* non-empty line or as the first line.
C9_NoConsecutiveEmpty ==
    \A i \in 1..(Len(readViewLines) - 1) :
        ~(readViewLines[i].content = <<>> /\ readViewLines[i + 1].content = <<>>)

IsEmptyLeaf(tree) == tree.content = <<>> /\ tree.children = <<>>

C9_AdjacentEmptyFlattened ==
    /\ pc = "flattened"
    /\ Len(readViewRoot.children) >= 2
    /\ IsEmptyLeaf(readViewRoot.children[1])
    /\ IsEmptyLeaf(readViewRoot.children[2])
    /\ Len(readViewLines) = 1
    /\ readViewLines[1].content = <<>>

RECURSIVE HasVisibleText(_)
\* a text node with a text that is not blank occurs in the tree
HasVisibleText(node) ==
    \/ node.type = "text" /\ Has(node, "text") /\ Trim(node.text) # <<>>
    \/ \E i \in 1..Len(Children(node)) : HasVisibleText(node.content[i])

\* C10: for every document with at least one node of non-empty visible
\* content, the first display line that projecting and flattening produce is
\* not empty; a leading empty line occurs only for an entirely empty document.
C10_NoLeadingEmptyLine ==
    (adf # Nothing /\ pc \in {"flatten", "flattened"} /\ HasVisibleText(adf)) =>
        (Len(readViewLines) > 0 => readViewLines[1].content # <<>>)

\* C11: after flattening, no display line's content contains a newline
\* character (each newline-separated fragment is a display line of its own).
C11_NoNewlineInLine ==
    \A i \in 1..Len(readViewLines) :
        \A k \in 1..Len(readViewLines[i].content) : readViewLines[i].content[k] # NL

----------------------------------------------------------------------------
(* The paragraph run, checked under SpecParse *)

\* a handler of higher priority than the paragraph accepts the line as the
\* start of a block (in the parser in use)
StartsBlock(line) ==
    \/ IsFenceLine(line)
    \/ IsHeadingLine(line)
    \/ IsRuleLine(line)
    \/ IsQuoteLine(line)
    \/ IsTaskLine(line)
    \/ IsBulletLine(line) /\ (parser = "markdown-parser" \/ ~HasCheckbox(line))
    \/ IsOrderedLine(line)
    \/ IsTableLine(line)

RECURSIVE MaximalRun(_, _)
\* the cursor after the maximal run, from cursor i, of lines that are neither
\* blank nor the start of another block
MaximalRun(lines, i) ==
    IF i < Len(lines) /\ ~IsBlank(lines[i + 1]) /\ ~StartsBlock(lines[i + 1])
    THEN MaximalRun(lines, i + 1)
    ELSE i

\* C12: a paragraph the block parser produces takes exactly the maximal run
\* of consecutive lines from the cursor that are non-blank and that no
\* higher-priority block handler accepts.
C12_ParagraphRun ==
    Dispatching =>
        \A r \in {Dispatched} :
            (r.kind = "node" /\ r.node.type = "paragraph") =>
                r.currentLine = MaximalRun(Top.lines, Top.currentLine)

----------------------------------------------------------------------------
(* List markers, checked under SpecRender *)

RECURSIVE ItemLines(_, _)
\* the lines the items of a list at nesting depth d are to be written as, in
\* document order: two spaces per enclosing list beyond the first, the
\* marker of the nearest enclosing list, the text of the item
ItemLines(list, d) ==
    LET ItemLine(i) ==
            Repeat(<<" ", " ">>, d - 1)
            \o (IF list.type = "orderedList" THEN NumChars(i) \o <<".">> ELSE <<"-">>)
            \o <<" ">> \o list.content[i].content[1].content[1].text
        Nested(i) ==
            IF Len(list.content[i].content) > 1
            THEN ItemLines(list.content[i].content[2], d + 1)
            ELSE <<>>
    IN Concat([i \in 1..Len(list.content) |-> <<ItemLine(i)>> \o Nested(i)])

\* C13: in the serialization every list item carries the marker of its
\* nearest enclosing list (i. for the i-th item of an orderedList, - for an
\* item of a bulletList) and two spaces of indent per enclosing list level
\* beyond the first, for every combination of enclosing list kinds.
C13_ListMarkers ==
    (pc = "serialized" /\ adf \in ListDocs) =>
        NonBlankLines(output) = ItemLines(adf.content[1], 1)

----------------------------------------------------------------------------
(* The page view: the page it holds, its display lines and its cursor *)

RECURSIVE ParseLoop(_, _, _)
\* the while loop of parseMarkdownToADF in markdown-parser
ParseLoop(context, content, ids) ==
    IF context.currentLine >= Len(context.lines) THEN content
    ELSE LET Collect(r) ==
                 ParseLoop([context EXCEPT !.currentLine = r.currentLine],
                           IF r.kind = "node" THEN Append(content, r.node) ELSE content,
                           r.uuid)
         IN Collect(parseBlock(context, ids))

parseMarkdownToADF(text) ==
    [type |-> "doc", version |-> 1,
     content |-> ParseLoop([lines |-> Split(text, NL), currentLine |-> 0], <<>>, 0)]

RECURSIVE FlattenCalls(_, _)
\* PageView.flattenReadViewNode with its recursive calls run to the end
FlattenCalls(lines, calls) ==
    IF calls = <<>> THEN lines
    ELSE LET Continue(r) == FlattenCalls(r.readViewLines, r.calls \o Tail(calls))
         IN Continue(PageView_flattenReadViewNode(lines, Head(calls).node,
                                                  Head(calls).prefix))

\* PageView.render: the display lines of a document
render(document) ==
    FlattenCalls(<<>>, <<[node |-> toReadView(document, createRenderContext),
                          prefix |-> <<>>]>>)

\* the Markdown texts a page body or an editor session can hold
PageMarkdowns ==
    { <<>>,
      <<"a", "b", NL, NL, "B", " ", "b">> }

\* the pages of the store, named by their pageId
Pages == {"p1", "p2"}

MaxPattern == 2
TerminalHeight == 4

Larger(a, b) == IF a > b THEN a ELSE b
Smaller(a, b) == IF a < b THEN a ELSE b

\* this.readViewLines[i]?.content || ""
LineContent(i) ==
    IF i >= 0 /\ i < Len(readViewLines) THEN readViewLines[i + 1].content ELSE <<>>

\* content[k] || ""
CharAt(content, k) == IF k >= 0 /\ k < Len(content) THEN content[k + 1] ELSE ""

\* the last column of a line: Math.max(0, content.length - 1)
LastCol(i) == Larger(0, Len(LineContent(i)) - 1)

Position(line, col) == [cursorLine |-> line, cursorCol |-> col]

\* PageView.moveCursor: the cursor it leaves
moveCursor(deltaLine, deltaCol) ==
    LET newLine == Larger(0, Smaller(Len(readViewLines) - 1, cursorLine + deltaLine))
        maxCol == LastCol(newLine)
        newCol == cursorCol + deltaCol
        clamped == Larger(0, Smaller(maxCol, newCol))
    IN IF deltaCol # 0 /\ deltaLine = 0 /\ newCol < 0 /\ newLine > 0
       THEN Position(newLine - 1, LastCol(newLine - 1))
       ELSE IF deltaCol # 0 /\ deltaLine = 0 /\ newCol > maxCol
               /\ newLine < Len(readViewLines) - 1
       THEN Position(newLine + 1, 0)
       ELSE Position(newLine, IF deltaLine # 0 THEN Smaller(clamped, LastCol(newLine))
                              ELSE clamped)

RECURSIVE SkipForward(_, _, _)
\* while (col < length && /\s/.test(content[col]) === space) col++
SkipForward(content, col, space) ==
    IF col < Len(content) /\ (IsSpace(CharAt(content, col)) <=> space)
    THEN SkipForward(content, col + 1, space)
    ELSE col

\* PageView.moveWordForward
moveWordForward ==
    LET content == LineContent(cursorLine)
        col == SkipForward(content, SkipForward(content, cursorCol, FALSE), TRUE)
    IN IF col >= Len(content) /\ cursorLine < Len(readViewLines) - 1
       THEN Position(cursorLine + 1, 0)
       ELSE Position(cursorLine, Smaller(col, Larger(0, Len(content) - 1)))

RECURSIVE SkipSpaceBack(_, _), SkipWordBack(_, _)
\* while (col > 0 && /\s/.test(content[col] || "")) col--
SkipSpaceBack(content, col) ==
    IF col > 0 /\ IsSpace(CharAt(content, col)) THEN SkipSpaceBack(content, col - 1)
    ELSE col

\* while (col > 0 && !/\s/.test(content[col - 1] || "")) col--
SkipWordBack(content, col) ==
    IF col > 0 /\ ~IsSpace(CharAt(content, col - 1)) THEN SkipWordBack(content, col - 1)
    ELSE col

\* PageView.moveWordBackward
moveWordBackward ==
    LET content == LineContent(cursorLine)
        start == IF cursorCol > 0 THEN cursorCol - 1 ELSE cursorCol
        col == SkipWordBack(content, SkipSpaceBack(content, start))
    IN IF col <= 0 /\ cursorCol = 0 /\ cursorLine > 0
       THEN Position(cursorLine - 1, LastCol(cursorLine - 1))
       ELSE Position(cursorLine, col)

\* String.prototype.toLowerCase on the letters of the pools
toLowerCase(text) ==
    [i \in 1..Len(text) |-> IF text[i] = "A" THEN "a"
                            ELSE IF text[i] = "B" THEN "b" ELSE text[i]]

RECURSIVE MatchesFrom(_, _, _, _)
\* the inner loop of findAllMatches: the matches of one line from startIdx on
MatchesFrom(lineIdx, content, pattern, startIdx) ==
    IF startIdx + Len(pattern) > Len(content) THEN <<>>
    ELSE (IF At(content, startIdx + 1, pattern)
          THEN <<[line |-> lineIdx, startCol |-> startIdx,
                  endCol |-> startIdx + Len(pattern) - 1]>>
          ELSE <<>>) \o MatchesFrom(lineIdx, content, pattern, startIdx + 1)

\* PageView.findAllMatches: the matches of the pattern in the display lines
findAllMatches(pattern) ==
    Concat([i \in 1..Len(readViewLines) |->
               MatchesFrom(i - 1, toLowerCase(readViewLines[i].content),
                           toLowerCase(pattern), 0)])

\* the findIndex of jumpToNextMatch and its wrap around (an index from 0)
NextMatchIndex(matches) ==
    LET after == {i \in 1..Len(matches) :
                     \/ matches[i].line > cursorLine
                     \/ matches[i].line = cursorLine /\ matches[i].startCol > cursorCol}
    IN IF after = {} THEN 0 ELSE (CHOOSE i \in after : \A j \in after : i <= j) - 1

\* the backward loop of jumpToPreviousMatch and its wrap around
PreviousMatchIndex(matches) ==
    LET before == {i \in 1..Len(matches) :
                      \/ matches[i].line < cursorLine
                      \/ matches[i].line = cursorLine /\ matches[i].startCol < cursorCol}
    IN IF before = {} THEN Len(matches) - 1
       ELSE (CHOOSE i \in before : \A j \in before : i >= j) - 1

\* the end of both jumps: the match becomes the current one and takes the cursor
JumpTo(matches, index, pattern) ==
    /\ search' = [search EXCEPT !.pattern = pattern, !.matches = matches,
                                !.currentMatchIndex = index, !.isSearching = FALSE]
    /\ cursorLine' = matches[index + 1].line
    /\ cursorCol' = matches[index + 1].startCol

\* the cursor and the selection stay where they are
CursorIdle == UNCHANGED <<cursorLine, cursorCol>>

\* the remote store, the cache, the calls in progress and the tree are not involved
StoreIdle == UNCHANGED <<remote, cache, tasks, requests, requested>>

\* the variables of the conversion passes and the search input, which the page
\* view does not use
PassesIdle ==
    UNCHANGED <<pc, adf, markdown, frames, uuid, stuck, parsed, output, readViewRoot,
                work, view, parser, searchInput>>

NoPage == [type |-> "none"]

PageData(pageId, version, document) ==
    [type |-> "page", pageId |-> pageId, version |-> version, adf |-> document]

NoPendingChanges ==
    [hasPendingChanges |-> FALSE, originalMarkdown |-> <<>>, editedMarkdown |-> <<>>,
     confirmingPublish |-> FALSE]

\* PageView.setPage, with the render() it ends with
setPage(page) ==
    /\ currentPage' = page
    /\ cursorLine' = 0
    /\ cursorCol' = 0
    /\ visualMode' = "none"
    /\ readViewLines' = render(page.adf)

\* handleKeypressInternal past its search-input and confirmation branches; the
\* keys come to the page view while ConfluenceTUI shows it
NormalMode ==
    /\ visible = "page"
    /\ ~search.isSearching
    /\ ~pendingChanges.confirmingPublish

\* a key that only places the cursor
PlaceCursor(position) ==
    /\ cursorLine' = position.cursorLine
    /\ cursorCol' = position.cursorCol
    /\ status' = "position"
    /\ UNCHANGED <<currentPage, readViewLines, visualMode, selectionAnchor, search,
                   pendingChanges, visible>>
    /\ StoreIdle
    /\ PassesIdle

HalfPage == TerminalHeight \div 2

\* h, l, k, j, ctrl+u and ctrl+d
KeyMove ==
    /\ NormalMode
    /\ \E delta \in {<<0, -1>>, <<0, 1>>, <<-1, 0>>, <<1, 0>>,
                     <<-HalfPage, 0>>, <<HalfPage, 0>>} :
           PlaceCursor(moveCursor(delta[1], delta[2]))

\* 0
KeyLineStart == NormalMode /\ PlaceCursor(Position(cursorLine, 0))

\* $
KeyLineEnd == NormalMode /\ PlaceCursor(Position(cursorLine, LastCol(cursorLine)))

\* g
KeyDocumentTop == NormalMode /\ PlaceCursor(Position(0, 0))

\* G
KeyDocumentBottom ==
    NormalMode /\ PlaceCursor(Position(Larger(0, Len(readViewLines) - 1), 0))

\* w
KeyWordForward == NormalMode /\ PlaceCursor(moveWordForward)

\* b
KeyWordBackward == NormalMode /\ PlaceCursor(moveWordBackward)

VisualModes == {"char", "line"}

\* v and V: startVisualMode, or cancelSelection when the mode is on already
KeyVisual ==
    /\ NormalMode
    /\ \E mode \in VisualModes :
           IF visualMode = mode
           THEN visualMode' = "none" /\ UNCHANGED selectionAnchor
           ELSE /\ visualMode' = mode
                /\ selectionAnchor' = [line |-> cursorLine, col |-> cursorCol]
    /\ status' = "position"
    /\ CursorIdle
    /\ UNCHANGED <<currentPage, readViewLines, search, pendingChanges, visible>>
    /\ StoreIdle
    /\ PassesIdle

\* y: yankSelection ends with cancelSelection, yankCurrentLine leaves the view
\* alone; the message of the clipboard call comes after the one of the key
KeyYank ==
    /\ NormalMode
    /\ visualMode' = "none"
    /\ status' = "yanked"
    /\ CursorIdle
    /\ UNCHANGED <<currentPage, readViewLines, selectionAnchor, search, pendingChanges,
                   visible>>
    /\ StoreIdle
    /\ PassesIdle

\* a key that only changes the search state; handleKeypress leaves the
\* message of the search while the search is typed
OnlySearch ==
    /\ status' = IF search'.isSearching THEN "search" ELSE "position"
    /\ CursorIdle
    /\ UNCHANGED <<currentPage, readViewLines, visualMode, selectionAnchor,
                   pendingChanges, visible>>
    /\ StoreIdle
    /\ PassesIdle

\* /: startSearch
KeySearch ==
    /\ NormalMode
    /\ search' = [search EXCEPT !.isSearching = TRUE, !.inputBuffer = <<>>]
    /\ OnlySearch

\* the characters typed into a search
SearchChars == {"b"}

\* handleSearchInput: the printable character c
handleSearchInput_printable(c) ==
    /\ visible = "page"
    /\ search.isSearching
    /\ Len(search.inputBuffer) < MaxPattern
    /\ search' = [search EXCEPT !.inputBuffer = Append(@, c)]
    /\ OnlySearch

SearchType == \E c \in SearchChars : handleSearchInput_printable(c)

\* handleSearchInput: backspace
SearchBackspace ==
    /\ visible = "page"
    /\ search.isSearching
    /\ search' = [search EXCEPT !.inputBuffer = SubSeq(@, 1, Len(@) - 1)]
    /\ OnlySearch

\* handleSearchInput: escape, cancelSearch
SearchCancel ==
    /\ visible = "page"
    /\ search.isSearching
    /\ search' = [search EXCEPT !.isSearching = FALSE, !.inputBuffer = <<>>]
    /\ OnlySearch

\* PageView.clearSearch
clearSearch ==
    search' = [search EXCEPT !.pattern = <<>>, !.matches = <<>>,
                             !.currentMatchIndex = -1, !.isSearching = FALSE]

\* a key that ends in a jump to a match, or leaves the cursor when there is none
JumpOrStay(matches, index, pattern) ==
    /\ IF Len(matches) > 0 THEN JumpTo(matches, index, pattern)
       ELSE /\ search' = [search EXCEPT !.pattern = pattern, !.matches = matches,
                                        !.isSearching = FALSE]
            /\ CursorIdle
    /\ status' = "position"
    /\ UNCHANGED <<currentPage, readViewLines, visualMode, selectionAnchor,
                   pendingChanges, visible>>
    /\ StoreIdle
    /\ PassesIdle

\* handleSearchInput: return, executeSearch
SearchExecute ==
    /\ visible = "page"
    /\ search.isSearching
    /\ LET Execute(pattern) ==
               IF pattern = <<>> THEN clearSearch /\ OnlySearch
               ELSE LET Found(matches) ==
                            JumpOrStay(matches, NextMatchIndex(matches), pattern)
                    IN Found(findAllMatches(pattern))
       IN Execute(Trim(search.inputBuffer))

\* n: jumpToNextMatch
KeySearchNext ==
    /\ NormalMode
    /\ JumpOrStay(search.matches, NextMatchIndex(search.matches), search.pattern)

\* N: jumpToPreviousMatch
KeySearchPrevious ==
    /\ NormalMode
    /\ JumpOrStay(search.matches, PreviousMatchIndex(search.matches), search.pattern)

\* PageView.discardChanges: the original Markdown goes back to the file and
\* into the view.  The calls of publishChanges in progress go on as they
\* were; the model marks the ones that carry the discarded edit.
discardChanges ==
    /\ cache' = [cache EXCEPT ![currentPage.pageId].md = pendingChanges.originalMarkdown]
    /\ setPage(PageData(currentPage.pageId, currentPage.version,
                        parseMarkdownToADF(pendingChanges.originalMarkdown)))
    /\ pendingChanges' = NoPendingChanges
    /\ tasks' = [i \in DOMAIN tasks |->
                    IF tasks[i].editedMarkdown = pendingChanges.editedMarkdown
                       /\ tasks[i].at \in {"getPageMetadata", "updatePage"}
                    THEN [tasks[i] EXCEPT !.discarded = TRUE]
                    ELSE tasks[i]]
    /\ UNCHANGED <<selectionAnchor, search, visible, remote, requests, requested>>

\* escape and backspace: cancel the selection, else clear the search, else
\* discard the pending changes, else go back to the tree
KeyBack ==
    /\ NormalMode
    /\ IF visualMode # "none"
       THEN /\ visualMode' = "none"
            /\ CursorIdle
            /\ UNCHANGED <<currentPage, readViewLines, selectionAnchor, search,
                           pendingChanges, visible>>
            /\ StoreIdle
       ELSE IF search.pattern # <<>>
       THEN /\ clearSearch
            /\ CursorIdle
            /\ UNCHANGED <<currentPage, readViewLines, visualMode, selectionAnchor,
                           pendingChanges, visible>>
            /\ StoreIdle
       ELSE IF pendingChanges.hasPendingChanges
       THEN discardChanges
       ELSE /\ visible' = "tree"
            /\ CursorIdle
            /\ UNCHANGED <<currentPage, readViewLines, visualMode, selectionAnchor, search,
                           pendingChanges>>
            /\ StoreIdle
    /\ status' = "position"
    /\ PassesIdle

\* i: openEditor, for an editor that exits with status 0 and leaves the text
\* edited in the Markdown file of the page
KeyEdit ==
    /\ NormalMode
    /\ currentPage # NoPage
    /\ LET originalMarkdown == cache[currentPage.pageId].md
       IN \E editedMarkdown \in PageMarkdowns \cup {originalMarkdown} :
              /\ cache' = [cache EXCEPT ![currentPage.pageId].md = editedMarkdown]
              /\ IF editedMarkdown # originalMarkdown
                 THEN /\ pendingChanges' =
                             [hasPendingChanges |-> TRUE,
                              originalMarkdown |-> originalMarkdown,
                              editedMarkdown |-> editedMarkdown,
                              confirmingPublish |-> FALSE]
                      /\ setPage(PageData(currentPage.pageId, currentPage.version,
                                          parseMarkdownToADF(editedMarkdown)))
                 ELSE /\ CursorIdle
                      /\ UNCHANGED <<currentPage, readViewLines, visualMode,
                                     pendingChanges>>
    /\ status' = "position"
    /\ UNCHANGED <<selectionAnchor, search, visible, remote, tasks, requests, requested>>
    /\ PassesIdle

----------------------------------------------------------------------------
(* The remote store, the cache and the asynchronous calls of the page view *)

MaxTasks == 2
MaxVersion == 2

NoCache == [type |-> "none"]

\* a CachedPage; stale is what isStale answers for it
Cached(version, document, stale) ==
    [type |-> "cached", version |-> version, adf |-> document, stale |-> stale]

\* PageCache.savePage: the cached page and the Markdown file beside it
savePage(pageId, document, version) ==
    [cache EXCEPT ![pageId] = [json |-> Cached(version, document, FALSE),
                               md |-> toMarkdown(document, createRenderContext)]]

\* PageCache.clearPageCache; a missing Markdown file reads as ""
clearPageCache(pageId) ==
    [cache EXCEPT ![pageId] = [json |-> NoCache, md |-> <<>>]]

\* an asynchronous call waiting at an await for the store.  Two fields are
\* notes of the model on the call: viewed is the version of the page in the
\* view when the call began, discarded tells that its edit was discarded since
Task(call, at, pageId, editedMarkdown, viewed) ==
    [call |-> call, at |-> at, pageId |-> pageId, editedMarkdown |-> editedMarkdown,
     currentVersion |-> 0, viewed |-> viewed, discarded |-> FALSE]

RemoveAt(seq, i) == SubSeq(seq, 1, i - 1) \o SubSeq(seq, i + 1, Len(seq))

InsertAt(seq, i, x) == SubSeq(seq, 1, i - 1) \o <<x>> \o SubSeq(seq, i, Len(seq))

\* the place among the requests on their way of the request of call i: the
\* requests are kept in the order of their calls
Slot(i) == Cardinality({j \in 1..(i - 1) : tasks[j].at = "updatePage"}) + 1

Node(pageId) == [type |-> "node", pageId |-> pageId]

\* the view keeps its page and its cursor
ViewIdle == UNCHANGED <<currentPage, readViewLines, cursorLine, cursorCol, visualMode>>

\* a page selected in the tree: ConfluenceTUI.openPage up to the await of
\* getPage in loadPage, or to its end when the cache answers
OpenPage ==
    /\ visible = "tree"
    /\ \E pageId \in DOMAIN remote :
           /\ requested' = Node(pageId)
           /\ LET Load(cached) ==
                      IF cached # NoCache /\ ~cached.stale
                      THEN /\ setPage(PageData(pageId, cached.version, cached.adf))
                           /\ visible' = "page"
                           /\ UNCHANGED tasks
                      ELSE /\ Len(tasks) < MaxTasks
                           /\ tasks' = Append(tasks, Task("openPage", "getPage", pageId,
                                                          <<>>, 0))
                           /\ ViewIdle
                           /\ UNCHANGED visible
              IN Load(cache[pageId].json)
    /\ status' = IF visible' = "page" THEN "viewing" ELSE "loading"
    /\ UNCHANGED <<selectionAnchor, search, pendingChanges, remote, cache, requests>>
    /\ PassesIdle

\* showPageView at the end of openPage; nothing after the loadPage of a publish
AfterLoad(task, page) ==
    IF task.call = "openPage" /\ page # NoPage THEN "page" ELSE visible

\* the message after it: the one of onActivate, or the one that ends publishChanges
StatusAfterLoad(task, page, message) ==
    IF task.call = "publishChanges" THEN "published"
    ELSE IF page # NoPage THEN "viewing"
    ELSE message

\* getPage answers: the rest of loadPage, and of openPage after it
LoadResponds ==
    /\ \E i \in DOMAIN tasks :
           /\ tasks[i].at = "getPage"
           /\ LET Use(task, page, held) ==
                      /\ cache' = IF page.body # Nothing
                                  THEN savePage(task.pageId, page.body, page.version)
                                  ELSE cache
                      /\ LET Show(cached) ==
                                 IF cached # NoCache
                                 THEN setPage(PageData(task.pageId, cached.version,
                                                       cached.adf))
                                 ELSE ViewIdle
                         IN Show(IF page.body # Nothing
                                 THEN Cached(page.version, page.body, FALSE)
                                 ELSE held)
                      /\ visible' = AfterLoad(task, currentPage')
              IN Use(tasks[i], remote[tasks[i].pageId], cache[tasks[i].pageId].json)
           /\ status' = StatusAfterLoad(tasks[i], currentPage', status)
           /\ tasks' = RemoveAt(tasks, i)
    /\ UNCHANGED <<selectionAnchor, search, pendingChanges, remote, requests, requested>>
    /\ PassesIdle

\* getPage throws: the catch of loadPage, and the rest of openPage after it
LoadFails ==
    /\ \E i \in DOMAIN tasks :
           /\ tasks[i].at = "getPage"
           /\ visible' = AfterLoad(tasks[i], currentPage)
           /\ status' = StatusAfterLoad(tasks[i], currentPage, "load failed")
           /\ tasks' = RemoveAt(tasks, i)
    /\ ViewIdle
    /\ UNCHANGED <<selectionAnchor, search, pendingChanges, remote, cache, requests,
                   requested>>
    /\ PassesIdle

\* a key that only changes the pending changes or starts a call
OnlyPending ==
    /\ status' = "position"
    /\ ViewIdle
    /\ UNCHANGED <<selectionAnchor, search, visible, remote, cache, requests, requested>>
    /\ PassesIdle

\* p: startPublishConfirmation
KeyPublish ==
    /\ NormalMode
    /\ pendingChanges.hasPendingChanges
    /\ pendingChanges' = [pendingChanges EXCEPT !.confirmingPublish = TRUE]
    /\ UNCHANGED tasks
    /\ OnlyPending

\* handlePublishConfirmation comes before every other key of normal mode
ConfirmationMode ==
    /\ visible = "page"
    /\ ~search.isSearching
    /\ pendingChanges.confirmingPublish

\* y: publishChanges up to its await of getPageMetadata
ConfirmPublish ==
    /\ ConfirmationMode
    /\ Len(tasks) < MaxTasks
    /\ pendingChanges' = [pendingChanges EXCEPT !.confirmingPublish = FALSE]
    /\ tasks' = IF currentPage # NoPage /\ pendingChanges.hasPendingChanges
                THEN Append(tasks, Task("publishChanges", "getPageMetadata",
                                        currentPage.pageId,
                                        pendingChanges.editedMarkdown,
                                        currentPage.version))
                ELSE tasks
    /\ OnlyPending

\* n and escape during the confirmation
CancelPublish ==
    /\ ConfirmationMode
    /\ pendingChanges' = [pendingChanges EXCEPT !.confirmingPublish = FALSE]
    /\ UNCHANGED tasks
    /\ OnlyPending

\* the payload of ConfluenceClient.updatePage, with the notes of its call
UpdateRequest(task, currentVersion) ==
    [pageId |-> task.pageId,
     version |-> currentVersion + 1,
     body |-> parseMarkdownToADF(task.editedMarkdown),
     editedMarkdown |-> task.editedMarkdown,
     viewed |-> task.viewed,
     discarded |-> task.discarded]

\* getPageMetadata answers: publishChanges up to its await of updatePage
MetadataResponds ==
    /\ \E i \in DOMAIN tasks :
           /\ tasks[i].at = "getPageMetadata"
           /\ LET Send(currentVersion) ==
                      /\ requests' = InsertAt(requests, Slot(i),
                                              UpdateRequest(tasks[i], currentVersion))
                      /\ tasks' = [tasks EXCEPT ![i].at = "updatePage",
                                                ![i].currentVersion = currentVersion]
              IN Send(remote[tasks[i].pageId].version)
    /\ ViewIdle
    /\ UNCHANGED <<selectionAnchor, search, pendingChanges, status, visible, remote,
                   cache, requested>>
    /\ PassesIdle

\* the catch block, were it to clear the pending changes
publishChanges_catch_clearing(pending) == NoPendingChanges

\* the catch block of publishChanges
publishChanges_catch(pending) == [pending EXCEPT !.confirmingPublish = FALSE]

\* a call of publishChanges ends in its catch block
PublishFails(i) ==
    /\ pendingChanges' = publishChanges_catch(pendingChanges)
    /\ status' = "publish failed"
    /\ requests' = IF tasks[i].at = "updatePage" THEN RemoveAt(requests, Slot(i))
                   ELSE requests
    /\ tasks' = RemoveAt(tasks, i)
    /\ ViewIdle
    /\ UNCHANGED <<selectionAnchor, search, visible, remote, cache, requested>>
    /\ PassesIdle

\* getPageMetadata throws
MetadataFails ==
    \E i \in DOMAIN tasks : tasks[i].at = "getPageMetadata" /\ PublishFails(i)

\* the store takes an update whose version number follows the one it holds
StoreAccepts(task) == task.currentVersion + 1 = remote[task.pageId].version + 1

\* updatePage answers: the pending changes and the cache are cleared and
\* publishChanges goes on to the await of getPage in loadPage
UpdateResponds ==
    /\ \E i \in DOMAIN tasks :
           /\ tasks[i].at = "updatePage"
           /\ StoreAccepts(tasks[i])
           /\ remote[tasks[i].pageId].version < MaxVersion
           /\ remote' = [remote EXCEPT ![tasks[i].pageId] =
                            [version |-> tasks[i].currentVersion + 1,
                             body |-> parseMarkdownToADF(tasks[i].editedMarkdown)]]
           /\ cache' = clearPageCache(tasks[i].pageId)
           /\ requests' = RemoveAt(requests, Slot(i))
           /\ tasks' = [tasks EXCEPT ![i].at = "getPage"]
    /\ pendingChanges' = NoPendingChanges
    /\ status' = "loading"
    /\ ViewIdle
    /\ UNCHANGED <<selectionAnchor, search, visible, requested>>
    /\ PassesIdle

\* updatePage throws: the store refuses the version, or the request fails
UpdateFails ==
    \E i \in DOMAIN tasks : tasks[i].at = "updatePage" /\ PublishFails(i)

\* the document another writer leaves
RemoteBodies == {parseMarkdownToADF(<<"b">>)}

\* another writer updates a page of the store
ForeignUpdate ==
    /\ \E pageId \in DOMAIN remote, body \in RemoteBodies :
           /\ remote[pageId].version < MaxVersion
           /\ remote[pageId].body # body
           /\ remote' = [remote EXCEPT ![pageId] = [version |-> @.version + 1,
                                                    body |-> body]]
    /\ ViewIdle
    /\ UNCHANGED <<selectionAnchor, search, pendingChanges, status, visible, cache,
                   tasks, requests, requested>>
    /\ PassesIdle

----------------------------------------------------------------------------
(* The page view with its pages in the cache: cursor, selection, search,    *)
(* editor sessions and discards, and pages opened from the tree.  No call   *)
(* waits for the store; publishing is followed in SpecPublish.              *)

\* the conversion passes are not running
PassesUnused ==
    /\ pc = "view"
    /\ adf = Nothing
    /\ markdown = <<>>
    /\ frames = <<>>
    /\ uuid = 0
    /\ stuck = 0
    /\ parsed = Nothing
    /\ output = <<>>
    /\ readViewRoot = Nothing
    /\ work = <<>>
    /\ view = "PageView"
    /\ parser = "markdown-parser"
    /\ searchInput = SearchInputConstructed

\* the body each page of the store starts with
FirstBody(pageId) ==
    IF pageId = "p1" THEN parseMarkdownToADF(<<"a", "b", NL, NL, "B", " ", "b">>)
    ELSE parseMarkdownToADF(<<"b">>)

\* a page has been opened from the tree and is shown, every page is cached
InitPageView ==
    /\ remote = [pageId \in Pages |-> [version |-> 1, body |-> FirstBody(pageId)]]
    /\ cache = [pageId \in Pages |->
                   [json |-> Cached(1, FirstBody(pageId), FALSE),
                    md |-> toMarkdown(FirstBody(pageId), createRenderContext)]]
    /\ \E pageId \in Pages :
           /\ currentPage = PageData(pageId, 1, FirstBody(pageId))
           /\ readViewLines = render(FirstBody(pageId))
           /\ requested = Node(pageId)
    /\ cursorLine = 0
    /\ cursorCol = 0
    /\ visualMode = "none"
    /\ selectionAnchor = [line |-> 0, col |-> 0]
    /\ search = [pattern |-> <<>>, matches |-> <<>>, currentMatchIndex |-> -1,
                 isSearching |-> FALSE, inputBuffer |-> <<>>]
    /\ pendingChanges = NoPendingChanges
    /\ tasks = <<>>
    /\ requests = <<>>
    /\ status = "viewing"
    /\ visible = "page"
    /\ PassesUnused

NextPageView ==
    \/ KeyMove
    \/ KeyLineStart
    \/ KeyLineEnd
    \/ KeyDocumentTop
    \/ KeyDocumentBottom
    \/ KeyWordForward
    \/ KeyWordBackward
    \/ KeyVisual
    \/ KeyYank
    \/ KeySearch
    \/ SearchType
    \/ SearchBackspace
    \/ SearchCancel
    \/ SearchExecute
    \/ KeySearchNext
    \/ KeySearchPrevious
    \/ KeyBack
    \/ KeyEdit
    \/ OpenPage

SpecPageView == InitPageView /\ [][NextPageView]_vars

\* C14: in the page view, after any sequence of key presses, searches, editor
\* sessions and page loads, cursorLine is an index into the current display
\* lines (0 when there are none) and cursorCol lies within the current line;
\* positions held from an earlier line sequence never place the cursor.
C14_CursorInRange ==
    /\ cursorLine >= 0
    /\ cursorLine <= Larger(0, Len(readViewLines) - 1)
    /\ cursorCol >= 0
    /\ cursorCol <= LastCol(cursorLine)

----------------------------------------------------------------------------
(* Publishing: a page is shown, edited, and its pending changes are         *)
(* published or discarded while the store answers, fails, or is written by  *)
(* others.  The cursor keys are followed in SpecPageView.                   *)

\* the store holds one page at version 1, which has been opened from the tree
InitPublish ==
    /\ remote = [pageId \in {"p1"} |-> [version |-> 1, body |-> FirstBody(pageId)]]
    /\ cache = [pageId \in {"p1"} |->
                   [json |-> Cached(1, FirstBody(pageId), FALSE),
                    md |-> toMarkdown(FirstBody(pageId), createRenderContext)]]
    /\ currentPage = PageData("p1", 1, FirstBody("p1"))
    /\ readViewLines = render(FirstBody("p1"))
    /\ requested = Node("p1")
    /\ cursorLine = 0
    /\ cursorCol = 0
    /\ visualMode = "none"
    /\ selectionAnchor = [line |-> 0, col |-> 0]
    /\ search = [pattern |-> <<>>, matches |-> <<>>, currentMatchIndex |-> -1,
                 isSearching |-> FALSE, inputBuffer |-> <<>>]
    /\ pendingChanges = NoPendingChanges
    /\ tasks = <<>>
    /\ requests = <<>>
    /\ status = "viewing"
    /\ visible = "page"
    /\ PassesUnused

NextPublish ==
    \/ KeyEdit
    \/ KeyBack
    \/ KeyPublish
    \/ ConfirmPublish
    \/ CancelPublish
    \/ MetadataResponds
    \/ MetadataFails
    \/ UpdateResponds
    \/ UpdateFails
    \/ LoadResponds
    \/ LoadFails
    \/ ForeignUpdate
    \/ OpenPage

SpecPublish == InitPublish /\ [][NextPublish]_vars

\* C15: once the user has discarded the pending changes, no update request
\* carrying the discarded edit is sent to the store afterwards, also when the
\* discard comes while a confirmed publish is waiting for the store.
C15_NoUpdateAfterDiscard ==
    \A i \in DOMAIN requests : ~requests[i].discarded

\* C16: an update request is sent with version N+1 only when N is the version
\* of the page that was in the view when the edit was published from it; a
\* store that has moved on keeps its newer content.
C16_VersionOfTheView ==
    \A i \in DOMAIN requests : requests[i].version = requests[i].viewed + 1

\* the calls of publishChanges that have not had the answer to their update
\* request yet
Publishing ==
    {i \in DOMAIN tasks : /\ tasks[i].call = "publishChanges"
                          /\ tasks[i].at \in {"getPageMetadata", "updatePage"}}

\* C17: at most one publish is in progress at any time: between the y that
\* confirms a publish and its completion no keys start a second one for the
\* same pending edit.
C17_OnePublish ==
    \A i, j \in Publishing :
        (tasks[i].pageId = tasks[j].pageId
         /\ tasks[i].editedMarkdown = tasks[j].editedMarkdown) => i = j

\* C18: when publishing fails at the metadata fetch or at the update request,
\* the pending edit is kept as it was (hasPendingChanges, editedMarkdown and
\* originalMarkdown keep their values) and confirmingPublish is false.
C18_FailureKeepsEdit ==
    [][(MetadataFails \/ UpdateFails) =>
          /\ pendingChanges'.hasPendingChanges = pendingChanges.hasPendingChanges
          /\ pendingChanges'.editedMarkdown = pendingChanges.editedMarkdown
          /\ pendingChanges'.originalMarkdown = pendingChanges.originalMarkdown
          /\ ~pendingChanges'.confirmingPublish]_vars

\* a publish has just failed: its message is in the status bar, no call is
\* left, the store is where it was, and the edit is still pending
C18_FailedWithEdit ==
    /\ status = "publish failed"
    /\ tasks = <<>>
    /\ remote["p1"].version = 1
    /\ pendingChanges.hasPendingChanges
    /\ pendingChanges.editedMarkdown # pendingChanges.originalMarkdown
    /\ ~pendingChanges.confirmingPublish

----------------------------------------------------------------------------
(* Opening pages from the tree: the cache holds a page, holds it stale, or  *)
(* does not hold it; the store answers with a document body, without one,  *)
(* or fails.                                                                *)

\* what the cache can hold of a page of the store
CacheEntries(page) ==
    { [json |-> NoCache, md |-> <<>>] } \cup
    { [json |-> Cached(page.version, page.body, stale),
       md |-> toMarkdown(page.body, createRenderContext)] : stale \in BOOLEAN }

\* the tree is shown and no page has been opened yet
InitOpenPage ==
    /\ remote \in [Pages -> {[version |-> 1, body |-> body] :
                                body \in {FirstBody("p1"), FirstBody("p2"), Nothing}}]
    /\ remote["p1"].body \in {FirstBody("p1"), Nothing}
    /\ remote["p2"].body \in {FirstBody("p2"), Nothing}
    /\ cache \in [Pages -> UNION {CacheEntries([version |-> 1, body |-> FirstBody(pageId)]) :
                                     pageId \in Pages}]
    /\ \A pageId \in Pages :
           cache[pageId] \in CacheEntries([version |-> 1, body |-> FirstBody(pageId)])
    /\ currentPage = NoPage
    /\ readViewLines = <<>>
    /\ requested = NoPage
    /\ cursorLine = 0
    /\ cursorCol = 0
    /\ visualMode = "none"
    /\ selectionAnchor = [line |-> 0, col |-> 0]
    /\ search = [pattern |-> <<>>, matches |-> <<>>, currentMatchIndex |-> -1,
                 isSearching |-> FALSE, inputBuffer |-> <<>>]
    /\ pendingChanges = NoPendingChanges
    /\ tasks = <<>>
    /\ requests = <<>>
    /\ status = "tree"
    /\ visible = "tree"
    /\ PassesUnused

NextOpenPage ==
    \/ OpenPage
    \/ LoadResponds
    \/ LoadFails
    \/ KeyBack

SpecOpenPage == InitOpenPage /\ [][NextOpenPage]_vars

\* C19: whenever the page view is shown as the result of openPage(node) and
\* no load is in progress, the page it displays is the one of node.pageId:
\* a failed or empty load leaves no earlier page shown as the requested one,
\* and of overlapping openPage calls the one made last decides the page.
C19_ShowsRequested ==
    (visible = "page" /\ tasks = <<>>) => currentPage.pageId = requested.pageId

----------------------------------------------------------------------------
(* The inline cascade, step by step *)

\* the first matcher of the order that matches anywhere in the text
FirstInOrder(found) ==
    LET firing == {k \in DOMAIN found : found[k].matched}
    IN IF firing = {} THEN NoMatch
       ELSE found[CHOOSE k \in firing : \A j \in firing : k <= j]

RECURSIVE StepNodes(_)
\* the nodes of a text when each step takes the first matcher of the order,
\* leaves the text before the match as it is and goes on after the match
StepNodes(text) ==
    IF text = <<>> THEN <<>>
    ELSE LET Emit(m) ==
                 IF m.matched
                 THEN (IF m.before # <<>> THEN <<PlainText(m.before)>> ELSE <<>>)
                      \o <<m.node>> \o StepNodes(m.after)
                 ELSE <<PlainText(text)>>
         IN Emit(FirstInOrder(Matchers(text)))

\* C20: at each step of inline parsing the matcher that fires is the first
\* in the order code, bold+italic, bold, italic, strikethrough, link, hard
\* break that matches anywhere in the remaining text, also when a later one
\* matches further to the left; the text before the match becomes one
\* unmarked text node and is not parsed; when none fires the remainder
\* becomes one unmarked text node and parsing stops.
C20_CascadeOrder ==
    Dispatching =>
        \A r \in {Dispatched} :
            (r.kind = "node" /\ r.node.type = "paragraph") =>
                \A text \in {Join(SubSeq(Top.lines, Top.currentLine + 1, r.currentLine),
                                  <<NL>>)} :
                    r.node.content = IF Trim(text) = <<>> THEN <<>> ELSE StepNodes(text)

\* an italic sample lies to the left of a code sample: the code matcher has
\* fired and the italic sample is left in the unmarked text before it
C20_LaterMatcherLeft ==
    /\ pc = "parsed"
    /\ markdown = InlineSamples[4] \o <<"x">> \o InlineSamples[1]
    /\ parsed.content =
          <<Paragraph(<<PlainText(<<"*", "a", "*", "x">>), Marked(<<"a">>, "code")>>)>>

----------------------------------------------------------------------------
(* Fenced code, checked under SpecParse *)

\* the cursor of the first fence line after cursor i, or the end of input
ClosingFence(lines, i) ==
    LET closers == {j \in (i + 1)..(Len(lines) - 1) : IsFenceLine(lines[j + 1])}
    IN IF closers = {} THEN Len(lines)
       ELSE CHOOSE j \in closers : \A k \in closers : j <= k

\* the codeBlock of a fence opened at the cursor of the innermost loop, but
\* for its language tag
FencedCode(r) ==
    \A close \in {ClosingFence(Top.lines, Top.currentLine)} :
        /\ r.kind = "node"
        /\ r.node.type = "codeBlock"
        /\ r.node.content =
              <<[type |-> "text",
                 text |-> Join(SubSeq(Top.lines, Top.currentLine + 2, close), <<NL>>)]>>
        /\ r.currentLine = IF close < Len(Top.lines) THEN close + 1 ELSE close

\* C21 as stated: a dispatcher call on a line that starts with a triple
\* backtick yields one codeBlock whose single text child is the following
\* lines joined by newlines, up to the next line that starts with a triple
\* backtick or to the end of input, none of them parsed; the language tag is
\* the text after the opening backticks (none when there is no text); the
\* cursor ends just after the closing fence, or at the end of input.
C21_FenceVerbatimTag ==
    (Dispatching /\ IsFenceLine(Top.lines[Top.currentLine + 1])) =>
        \A r \in {Dispatched} :
            /\ FencedCode(r)
            /\ \A language \in {Slice(Top.lines[Top.currentLine + 1], 3)} :
                   IF language = <<>> THEN ~Has(r.node, "attrs")
                   ELSE Has(r.node, "attrs") /\ r.node.attrs = [language |-> language]

\* C21, amended: the language tag is the text after the opening backticks
\* with the blanks around it removed, and the codeBlock carries no language
\* attribute when that text is empty; the rest as stated.
C21_Fence ==
    (Dispatching /\ IsFenceLine(Top.lines[Top.currentLine + 1])) =>
        \A r \in {Dispatched} :
            /\ FencedCode(r)
            /\ \A language \in {Trim(Slice(Top.lines[Top.currentLine + 1], 3))} :
                   IF language = <<>> THEN ~Has(r.node, "attrs")
                   ELSE Has(r.node, "attrs") /\ r.node.attrs = [language |-> language]

\* a fence with a language around markup lines, closed, and a paragraph after it
C21_FenceParsed ==
    /\ pc = "parsed"
    /\ markdown = Join(<<Fence \o <<" ", "j", " ">>, <<"*", "a", "*">>, <<"#", " ", "h">>,
                         Fence \o <<"x">>, <<"p">> >>, <<NL>>)
    /\ parsed.content =
          <<[type |-> "codeBlock", attrs |-> [language |-> <<"j">>],
             content |-> <<[type |-> "text",
                            text |-> <<"*", "a", "*", NL, "#", " ", "h">>]>>],
            Paragraph(<<[type |-> "text", text |-> <<"p">>]>>)>>

----------------------------------------------------------------------------
(* Blockquotes, checked under SpecParse *)

\* a line that starts with "> " or is ">"
Quoted(line) ==
    \/ Len(line) >= 2 /\ line[1] = ">" /\ line[2] = " "
    \/ Len(line) = 1 /\ line[1] = ">"

\* the cursor after the maximal run of quoted lines that starts at cursor i
QuotedRunEnd(lines, i) ==
    CHOOSE j \in i..Len(lines) :
        /\ \A k \in (i + 1)..j : Quoted(lines[k])
        /\ j < Len(lines) => ~Quoted(lines[j + 1])

\* a quoted line without its marker
Unquoted(line) == IF Len(line) >= 2 THEN SubSeq(line, 3, Len(line)) ELSE <<>>

\* C22: a dispatcher call on a line that starts with "> " or equals ">"
\* takes exactly the maximal run of such lines and opens a separate context
\* on their stripped text, parsed by the same dispatcher, leaving the lines
\* of the outer context as they are; when the nested context is exhausted
\* the outer context receives one blockquote whose content is what the
\* nested context collected, or exactly one empty paragraph when it
\* collected nothing, and its lines and cursor stay as they are.
C22_Blockquote ==
    [][/\ (Dispatching /\ Quoted(Top.lines[Top.currentLine + 1])) =>
            \A end \in {QuotedRunEnd(Top.lines, Top.currentLine)} :
               /\ Len(frames') = Len(frames) + 1
               /\ SubSeq(frames', 1, Len(frames) - 1) = SubSeq(frames, 1, Len(frames) - 1)
               /\ frames'[Len(frames)] = [Top EXCEPT !.currentLine = end]
               /\ frames'[Len(frames) + 1] =
                     [lines |-> [k \in 1..(end - Top.currentLine) |->
                                    Unquoted(Top.lines[Top.currentLine + k])],
                      currentLine |-> 0,
                      content |-> <<>>]
       /\ (Len(frames) > 1 /\ Len(frames') = Len(frames) - 1) =>
            /\ Top.currentLine >= Len(Top.lines)
            /\ SubSeq(frames', 1, Len(frames) - 2) = SubSeq(frames, 1, Len(frames) - 2)
            /\ \E node \in {[type |-> "blockquote", content |-> Top.content],
                              [type |-> "blockquote",
                               content |-> <<[type |-> "paragraph", content |-> <<>>]>>]} :
                  /\ node.content # <<>>
                  /\ frames'[Len(frames) - 1] =
                        [frames[Len(frames) - 1] EXCEPT !.content = Append(@, node)]]_vars

\* three quote markers gave three blockquotes in each other, the next quoted
\* line a paragraph beside the inner two, and the line after the run a
\* paragraph of the document
C22_NestedQuotes ==
    /\ pc = "parsed"
    /\ parsed.content =
          <<[type |-> "blockquote",
             content |->
                <<[type |-> "blockquote",
                   content |->
                      <<[type |-> "blockquote",
                         content |-> <<Paragraph(<<[type |-> "text",
                                                    text |-> <<"q">>]>>)>>]>>],
                  Paragraph(<<[type |-> "text", text |-> <<"p">>]>>)>>],
            Paragraph(<<[type |-> "text", text |-> <<"p">>]>>)>>

\* a run of bare quote markers gave a blockquote that holds one empty paragraph
C22_EmptyQuote ==
    /\ pc = "parsed"
    /\ Len(parsed.content) = 2
    /\ parsed.content[1] = [type |-> "blockquote", content |-> <<Paragraph(<<>>)>>]
    /\ parsed.content[2].type = "bulletList"

----------------------------------------------------------------------------
(* The order of the marks, checked under SpecRender *)

\* the token of a mark around x
Token(mark, x) ==
    CASE mark.type = "strong" -> <<"*", "*">> \o x \o <<"*", "*">>
      [] mark.type = "em" -> <<"*">> \o x \o <<"*">>
      [] mark.type = "code" -> <<Backtick>> \o x \o <<Backtick>>
      [] mark.type = "strike" -> <<"~", "~">> \o x \o <<"~", "~">>
      [] mark.type = "underline" -> <<"<", "u", ">">> \o x \o <<"<", "/", "u", ">">>
      [] mark.type = "link" ->
            <<"[">> \o x \o <<"]", "(">>
            \o (IF "attrs" \in DOMAIN mark THEN mark.attrs.href ELSE <<>>) \o <<")">>

RECURSIVE Wrapped(_, _, _)
\* the first n marks around the text: mark n wraps what the marks before it gave
Wrapped(marks, n, text) ==
    IF n = 0 THEN text ELSE Token(marks[n], Wrapped(marks, n - 1, text))

\* C23: a text node with a mark sequence serializes to its text wrapped by
\* the marks in sequence order, each later mark around the complete result
\* of the earlier ones (the last mark outermost), with the tokens **x** for
\* strong, *x* for em, backtick-x-backtick for code, ~~x~~ for strike,
\* <u>x</u> for underline and [x](href) for link.
C23_MarkOrder ==
    (adf \in MarkDocs /\ pc # "render") =>
        /\ pc # "threw"
        /\ pc = "serialized" =>
              \A node \in {adf.content[1].content[1]} :
                 output = Wrapped(node.marks, Len(node.marks), node.text) \o <<NL, NL>>

\* a link around an em was serialized
C23_LinkAroundEm ==
    /\ pc = "serialized"
    /\ adf = Doc(<<Paragraph(<<[type |-> "text", text |-> <<"x">>,
                                marks |-> <<[type |-> "em"],
                                            [type |-> "link",
                                             attrs |-> [href |-> <<"u">>]]>>]>>)>>)
    /\ output = <<"[", "*", "x", "*", "]", "(", "u", ")", NL, NL>>

----------------------------------------------------------------------------
(* The inherited prefix, checked under SpecFlatten *)

\* the text up to its first newline
FirstPart(text) == Split(text, NL)[1]

\* C24: when a node with non-empty content C and children c1..cn is
\* flattened, C, after the prefix the node inherited, is at the start of
\* exactly the first display line of the subtree, followed there by the
\* content of the first child (up to a newline in it), and no later line of
\* the subtree carries C or the inherited prefix.  Stated for the node that
\* holds "r" in a marked tree, whose inherited prefix is "p" or empty.
C24_PrefixOnFirstLine ==
    (pc = "flattened" /\ readViewRoot \in MarkedTrees) =>
        \A prefix \in {IF readViewRoot.content = <<"p">> THEN <<"p">> ELSE <<>>},
           node \in {IF readViewRoot.content = <<"p">> THEN readViewRoot.children[1]
                     ELSE readViewRoot} :
            /\ Len(readViewLines) >= 1
            /\ StartsWith(readViewLines[1].content,
                          FirstPart(prefix \o node.content \o node.children[1].content))
            /\ \A i \in 2..Len(readViewLines) :
                  \A k \in 1..Len(readViewLines[i].content) :
                      readViewLines[i].content[k] \notin {"r", "p"}

----------------------------------------------------------------------------
(* Task lists, checked under SpecParse *)

\* the character between the brackets of a checkbox line
BoxChar(line) ==
    line[1 + CHOOSE i \in 1..Len(line) :
                 line[i] = "[" /\ \A j \in 1..(i - 1) : line[j] # "["]

RECURSIVE LocalIds(_)
\* the localId attributes of a tree, in document order
LocalIds(node) ==
    (IF Has(node, "attrs") /\ Has(node.attrs, "localId") THEN <<node.attrs.localId>>
     ELSE <<>>)
    \o Concat([i \in 1..Len(Children(node)) |-> LocalIds(node.content[i])])

\* C25: every task list a dispatcher call yields has one taskItem per line it
\* took, in source order, whose state is DONE exactly when the character in
\* the brackets of its line is x or X and TODO otherwise; each taskItem and
\* each taskList carries a localId, and the localIds of a parsed document
\* are pairwise distinct.
C25_TaskList ==
    /\ Dispatching =>
          \A r \in {Dispatched} :
             (r.kind = "node" /\ r.node.type = "taskList") =>
                /\ Has(r.node.attrs, "localId")
                /\ Len(r.node.content) = r.currentLine - Top.currentLine
                /\ \A k \in 1..Len(r.node.content) :
                      /\ r.node.content[k].type = "taskItem"
                      /\ Has(r.node.content[k].attrs, "localId")
                      /\ r.node.content[k].attrs.state =
                            (IF BoxChar(Top.lines[Top.currentLine + k]) \in {"x", "X"}
                             THEN "DONE" ELSE "TODO")
    /\ pc = "parsed" =>
          \A ids \in {LocalIds(parsed)} :
             \A i, j \in 1..Len(ids) : ids[i] = ids[j] => i = j

\* the text with a task list before, inside and after a blockquote is parsed
C25_ThreeTaskLists ==
    /\ pc = "parsed"
    /\ markdown \in TaskInputs
    /\ Len(parsed.content) = 3
    /\ parsed.content[1].type = "taskList"
    /\ parsed.content[1].content[1].attrs.state = "TODO"
    /\ parsed.content[1].content[2].attrs.state = "DONE"
    /\ parsed.content[2].type = "blockquote"
    /\ parsed.content[2].content[1].type = "taskList"
    /\ parsed.content[2].content[1].content[1].attrs.state = "DONE"
    /\ parsed.content[2].content[1].content[2].attrs.state = "TODO"
    /\ parsed.content[3].type = "taskList"
    /\ Len(LocalIds(parsed)) = 8

----------------------------------------------------------------------------
(* Text nodes of a parsed document, checked under SpecParse *)

RECURSIVE TextNodes(_)
\* the text nodes of a tree, in document order
TextNodes(node) ==
    IF node.type = "text" THEN <<node>>
    ELSE Concat([i \in 1..Len(Children(node)) |-> TextNodes(node.content[i])])

\* C26: every text node of a tree that parseMarkdownToADF returns has a
\* non-empty text: an empty list item, table cell, heading or code fence has
\* an empty content sequence, never a text node whose text is "".
C26_NoEmptyText ==
    pc = "parsed" =>
        \A nodes \in {TextNodes(parsed)} :
           \A i \in 1..Len(nodes) : Has(nodes[i], "text") /\ nodes[i].text # <<>>

----------------------------------------------------------------------------
(* Discarding pending changes, checked under SpecPageView: the store is    *)
(* never written there, so the document and the Markdown file of a page    *)
(* before its first unpublished editor session are the ones of Init        *)

\* a step of PageView.discardChanges
Discards == pendingChanges.hasPendingChanges /\ ~pendingChanges'.hasPendingChanges

\* the page shows the document and its file holds the Markdown text that it
\* had before the first unpublished editor session
PreEditState(page, files) ==
    /\ page.adf = FirstBody(page.pageId)
    /\ files[page.pageId].md = toMarkdown(FirstBody(page.pageId), createRenderContext)

\* C27: discarding the pending changes restores the pre-edit state: after
\* the discard the document of the page and its cached Markdown file are what
\* they were immediately before the first unpublished editor session, for
\* any number of editor sessions made before the discard.
C27_DiscardRestores ==
    [][Discards => PreEditState(currentPage', cache')]_vars

\* the same for a discard that follows one editor session only
C27_DiscardAfterOneSession ==
    [][(Discards /\ PreEditState([currentPage EXCEPT !.adf = FirstBody(currentPage.pageId)],
                                 [cache EXCEPT ![currentPage.pageId].md =
                                                   pendingChanges.originalMarkdown]))
          => PreEditState(currentPage', cache')]_vars

----------------------------------------------------------------------------
(* Two conversions of the same text: the caller keeps the document of the  *)
(* first call of parseMarkdownToADF and calls it again with the same text. *)
(* The identifier source is ambient (crypto.randomUUID), so its state is   *)
(* not reset by the second call.                                           *)

\* the second call of parseMarkdownToADF(markdown); adf holds what the first
\* call returned
ParseAgain ==
    /\ pc = "parsed"
    /\ adf = Nothing
    /\ adf' = parsed
    /\ parsed' = Nothing
    /\ frames' = <<Frame(Split(markdown, NL))>>
    /\ pc' = "parse"
    /\ UNCHANGED <<markdown, uuid, stuck, output>>
    /\ ConversionIdle

NextRepeat ==
    \/ SkipLine
    \/ ParseBlock
    \/ EnterBlockquote
    \/ LeaveBlockquote
    \/ FinishParse
    \/ ParseAgain

SpecRepeat == InitParse /\ [][NextRepeat]_vars

\* C28: conversions are deterministic and independent of earlier calls:
\* parsing the same Markdown text twice yields equal document trees.
C28_SameTree ==
    (pc = "parsed" /\ adf # Nothing) => parsed = adf

RECURSIVE WithoutLocalIds(_)
\* a tree with the localId of every task list and task item left out
WithoutLocalIds(node) ==
    LET kept == IF Has(node, "attrs") /\ Has(node.attrs, "localId")
                THEN [node EXCEPT !.attrs = [k \in DOMAIN node.attrs \ {"localId"} |->
                                                node.attrs[k]]]
                ELSE node
    IN IF Has(kept, "content")
       THEN [kept EXCEPT !.content = [i \in 1..Len(kept.content) |->
                                         WithoutLocalIds(kept.content[i])]]
       ELSE kept

\* the two documents differ in nothing but their localIds
C28_SameTreeButLocalIds ==
    (pc = "parsed" /\ adf # Nothing) => WithoutLocalIds(parsed) = WithoutLocalIds(adf)

----------------------------------------------------------------------------
(* SearchInput: the input buffer, the debounce timer of triggerSearch and   *)
(* the calls of ConfluenceClient.search that have not answered yet.  The    *)
(* calls are kept in tasks, in the order they were made.                    *)

MaxQuery == 3

\* the characters typed into the search input
QueryChars == {"a"}

\* what the store finds for a query, when it finds anything
SearchResults(query) == <<[title |-> query]>>

\* clearTimeout(this.searchTimeout): the field keeps the handle
Cleared(searchTimeout) == IF searchTimeout = "null" THEN "null" ELSE "cleared"

\* SearchInput.triggerSearch, for the fields as they are after the key
triggerSearch(fields) ==
    IF Len(fields.inputBuffer) < 2
    THEN [fields EXCEPT !.results = <<>>, !.searchTimeout = Cleared(@)]
    ELSE [fields EXCEPT !.isLoading = TRUE, !.searchTimeout = "armed"]

\* nothing but the search input and the calls of search is involved
OnlySearchInput ==
    UNCHANGED <<pc, adf, markdown, frames, uuid, stuck, parsed, output, readViewRoot,
                readViewLines, work, view, parser, currentPage, cursorLine, cursorCol,
                visualMode, selectionAnchor, search, pendingChanges, remote, cache,
                requests, status, requested>>

\* LandingView.focusSearch: SearchInput.focus
SearchInputFocus ==
    /\ visible = "landing"
    /\ visible' = "search"
    /\ searchInput' = [searchInput EXCEPT !._isFocused = TRUE, !.inputBuffer = <<>>,
                                           !.results = <<>>, !.selectedIndex = 0]
    /\ UNCHANGED tasks
    /\ OnlySearchInput

\* escape, LandingView.unfocusSearch: SearchInput.blur
SearchInputBlur ==
    /\ visible = "search"
    /\ visible' = "landing"
    /\ searchInput' = [searchInput EXCEPT !._isFocused = FALSE, !.inputBuffer = <<>>,
                                           !.results = <<>>, !.searchTimeout = "null"]
    /\ UNCHANGED tasks
    /\ OnlySearchInput

\* LandingView.onActivate, when the application comes back to the landing
\* view: SearchInput.reset
SearchInputReset ==
    /\ visible' = "landing"
    /\ searchInput' = [searchInput EXCEPT !.inputBuffer = <<>>, !.results = <<>>,
                                           !.selectedIndex = 0, !.isLoading = FALSE,
                                           !.searchTimeout = "null"]
    /\ UNCHANGED tasks
    /\ OnlySearchInput

\* SearchInput.handleKeypress: a printable character
SearchInputType ==
    /\ visible = "search"
    /\ Len(searchInput.inputBuffer) < MaxQuery
    /\ \E c \in QueryChars :
           searchInput' = triggerSearch([searchInput EXCEPT !.inputBuffer = Append(@, c)])
    /\ UNCHANGED <<tasks, visible>>
    /\ OnlySearchInput

\* SearchInput.handleKeypress: backspace
SearchInputBackspace ==
    /\ visible = "search"
    /\ Len(searchInput.inputBuffer) > 0
    /\ searchInput' = triggerSearch([searchInput EXCEPT
                                         !.inputBuffer = SubSeq(@, 1, Len(@) - 1)])
    /\ UNCHANGED <<tasks, visible>>
    /\ OnlySearchInput

\* the timer of triggerSearch fires: the callback up to its await of
\* client.search, which it calls with the input buffer of that moment
SearchTimeoutFires ==
    /\ searchInput.searchTimeout = "armed"
    /\ Len(tasks) < MaxTasks
    /\ searchInput' = [searchInput EXCEPT !.searchTimeout = "fired"]
    /\ tasks' = Append(tasks, [call |-> "triggerSearch", at |-> "search",
                               query |-> searchInput.inputBuffer])
    /\ UNCHANGED visible
    /\ OnlySearchInput

\* client.search answers: the rest of the callback
SearchResponds ==
    /\ \E i \in DOMAIN tasks :
           /\ tasks[i].at = "search"
           /\ \E found \in {<<>>, SearchResults(tasks[i].query)} :
                  searchInput' = [searchInput EXCEPT !.results = found,
                                                     !.selectedIndex = 0,
                                                     !.isLoading = FALSE]
           /\ tasks' = RemoveAt(tasks, i)
    /\ UNCHANGED visible
    /\ OnlySearchInput

\* client.search fails: the catch of the callback
SearchFails ==
    /\ \E i \in DOMAIN tasks :
           /\ tasks[i].at = "search"
           /\ searchInput' = [searchInput EXCEPT !.isLoading = FALSE]
           /\ tasks' = RemoveAt(tasks, i)
    /\ UNCHANGED visible
    /\ OnlySearchInput

\* the landing view is shown in menu mode; no page has been opened
InitSearchInput ==
    /\ PassesUnused
    /\ readViewLines = <<>>
    /\ currentPage = NoPage
    /\ cursorLine = 0
    /\ cursorCol = 0
    /\ visualMode = "none"
    /\ selectionAnchor = [line |-> 0, col |-> 0]
    /\ search = [pattern |-> <<>>, matches |-> <<>>, currentMatchIndex |-> -1,
                 isSearching |-> FALSE, inputBuffer |-> <<>>]
    /\ pendingChanges = NoPendingChanges
    /\ remote = <<>>
    /\ cache = <<>>
    /\ tasks = <<>>
    /\ requests = <<>>
    /\ status = "ready"
    /\ visible = "landing"
    /\ requested = NoPage

NextSearchInput ==
    \/ SearchInputFocus
    \/ SearchInputBlur
    \/ SearchInputReset
    \/ SearchInputType
    \/ SearchInputBackspace
    \/ SearchTimeoutFires
    \/ SearchResponds
    \/ SearchFails

SpecSearchInput == InitSearchInput /\ [][NextSearchInput]_vars

\* a search for the text of the input buffer is on its way: its timer runs or
\* its call has not answered
SearchUnderWay ==
    \/ searchInput.searchTimeout = "armed"
    \/ \E i \in DOMAIN tasks : tasks[i].query = searchInput.inputBuffer

\* C29: the results of a SearchInput always correspond to the current input
\* buffer: after reset(), or once the buffer is shorter than 2 characters,
\* the results stay empty until a new search is triggered, and the answer to
\* an older query never replaces the results of a newer one, also when the
\* answers of the store come late or out of order.
C29_ResultsOfBuffer ==
    searchInput.results # <<>> =>
        \/ /\ Len(searchInput.inputBuffer) >= 2
           /\ searchInput.results = SearchResults(searchInput.inputBuffer)
        \/ /\ Len(searchInput.inputBuffer) >= 2
           /\ SearchUnderWay

----------------------------------------------------------------------------
(* The way of a key press: NavigationHelp.handleKeypress gives it to the    *)
(* global handlers, unless the active component wants exclusive input, and  *)
(* then to the active component.  The tree view is active while the tree is *)
(* shown and the page view while a page is shown.                           *)

\* the keys pressed; return, which runs the search, is followed in SpecPageView
Keys == {"q", "l", "/", "y", "p", "i", "escape", "backspace"}

\* the keys whose sequence is one printable character
PrintableKeys == {"q", "l", "/", "y", "p", "i"}

\* keyBindings.quit
QuitKeys == {"q"}

\* wantsExclusiveInput without the publish confirmation
wantsExclusiveInput_searchOnly == search.isSearching

\* PageView.wantsExclusiveInput
wantsExclusiveInput == search.isSearching \/ pendingChanges.confirmingPublish

\* this.activeComponent?.wantsExclusiveInput?.() ?? false: the tree view has
\* no such method
exclusiveInput == visible = "page" /\ wantsExclusiveInput

\* the global handler of the quit key: cleanup destroys the renderer and ends
\* the process
cleanup ==
    /\ visible' = "none"
    /\ UNCHANGED <<currentPage, readViewLines, cursorLine, cursorCol, visualMode,
                   selectionAnchor, search, pendingChanges, status>>
    /\ StoreIdle
    /\ PassesIdle

\* PageView.handleSearchInput
handleSearchInput(key) ==
    CASE key = "return" -> SearchExecute
      [] key = "escape" -> SearchCancel
      [] key = "backspace" -> SearchBackspace
      [] key \in PrintableKeys -> handleSearchInput_printable(key)
      [] OTHER -> FALSE

\* PageView.handlePublishConfirmation; a key other than y, n and escape is
\* ignored
handlePublishConfirmation(key) ==
    CASE key = "y" -> ConfirmPublish
      [] key \in {"n", "escape"} -> CancelPublish
      [] OTHER -> FALSE

\* PageView.handleKeypress
PageView_handleKeypress(key) ==
    IF search.isSearching THEN handleSearchInput(key)
    ELSE IF pendingChanges.confirmingPublish THEN handlePublishConfirmation(key)
    ELSE CASE key \in {"escape", "backspace"} -> KeyBack
           [] key = "p" -> KeyPublish
           [] key = "/" -> KeySearch
           [] key = "n" -> KeySearchNext
           [] key = "y" -> KeyYank
           [] key = "i" -> KeyEdit
           [] key = "l" -> NormalMode /\ PlaceCursor(moveCursor(0, 1))
           [] OTHER -> FALSE

\* TreeView.handleKeypress: l on a page of the tree
TreeView_handleKeypress(key) ==
    CASE key = "l" -> OpenPage
      [] OTHER -> FALSE

\* NavigationHelp.handleKeypress
NavigationHelp_handleKeypress(key) ==
    IF ~exclusiveInput /\ key \in QuitKeys THEN cleanup
    ELSE IF visible = "page" THEN PageView_handleKeypress(key)
    ELSE TreeView_handleKeypress(key)

\* the keypress listener of the application
KeyPress ==
    /\ visible \in {"tree", "page"}
    /\ \E key \in Keys : NavigationHelp_handleKeypress(key)

\* the keys alone: the store answers no call while they are pressed
NextKeys == KeyPress

SpecKeys == InitPublish /\ [][NextKeys]_vars

\* C30: while the page view is in search-input mode or in publish-confirmation
\* mode it is the active component, and a key press reaches no global handler
\* (the quit key does not end the application) and is handled by the page
\* view alone; in search-input mode a key of one printable character is
\* appended to the search buffer.
C30_ExclusiveKeys ==
    /\ []((search.isSearching \/ pendingChanges.confirmingPublish) => visible = "page")
    /\ [][\A key \in Keys :
             ((search.isSearching \/ pendingChanges.confirmingPublish)
                 /\ NavigationHelp_handleKeypress(key)) =>
                 /\ visible' = "page"
                 /\ UNCHANGED <<currentPage, readViewLines, remote, cache, requests,
                                requested>>
                 /\ (search.isSearching /\ key \in PrintableKeys) =>
                        search' = [search EXCEPT !.inputBuffer = Append(@, key)]]_vars

\* the quit key has been typed into the search of a page with pending changes
C30_QuitKeyTyped ==
    /\ visible = "page"
    /\ search.isSearching
    /\ search.inputBuffer = <<"q", "q">>
    /\ pendingChanges.hasPendingChanges

\* the publish confirmation is open
C30_Confirming ==
    visible = "page" /\ pendingChanges.confirmingPublish

====
